---- MODULE Spec2Model ----
(***************************************************************************)
(* State-machine model of the CodeFree server: the entity store            *)
(* (server/storage.ts, both backends), the request handlers of             *)
(* server/routes.ts (project files, GitHub integration, AI actions) and    *)
(* the git bridge (server/github.ts).                                      *)
(*                                                                         *)
(* Every request is a task that runs atomically between two awaits; the    *)
(* position of each in-flight request is kept in reqs[r].pc.               *)
(***************************************************************************)
EXTENDS Integers, Sequences, FiniteSets, TLC

(***************************************************************************)
(* Bounds of the model.                                                    *)
(***************************************************************************)
MaxRequests == 3      \* PUT files requests issued in one behaviour
MaxGitRequests == 2   \* GitHub requests issued in one behaviour
MaxAiRequests == 2    \* AI requests issued in one behaviour
MaxClock == 2         \* highest value of the wall clock (new Date())
MaxStoreCalls == 3    \* direct calls of store methods in one behaviour
MaxFiles == 2         \* entries in one list of generated files
MaxApplies == 2       \* lists of generated files applied in one behaviour

(***************************************************************************)
(* Values.                                                                 *)
(***************************************************************************)
Null == "null"                 \* JavaScript null, for string-valued fields
Undefined == "undefined"       \* a field left out of a request record
NoDate == <<>>                 \* a null timestamp; a date t is <<t>>

Users == {"u1", "u2"}
P1 == "p1"                     \* the project the behaviours work on
P2 == "p2"                     \* a second project
MissingProject == "p0"         \* an id that names no project
Paths == {"a.js", "b.css"}
Contents == {"x", "y"}
Languages == {"css"}
RepoUrls == {"https://github.com/o/r"}
Branches == {"main", "dev"}

DefaultContent == ""
DefaultLanguage == "javascript"
DefaultBranch == "main"
DefaultCredits == 1000

VARIABLES
    backend,        \* "mem" (MemStorage) or "db" (DatabaseStorage), chosen at load
    maxInFlight,    \* how many requests the environment keeps in flight at once
    now,            \* wall clock read by new Date()
    nextId,         \* ids handed out so far (generateId / the table's id default)
    users,          \* users: id -> User
    usersByEmail,   \* MemStorage.usersByEmail: email -> User
    projects,       \* projects: id -> Project
    memFiles,       \* MemStorage.projectFiles: key <<projectId, path>> -> ProjectFile
    dbFiles,        \* table project_files of DatabaseStorage: a set of rows
    aiGenerations,  \* AiGeneration rows
    gitWorkspace,   \* temp/git-workspaces/<projectId>: path -> content
    aiWorkspace,    \* temp/workspaces/<projectId>: path -> content
    remote,         \* the GitHub repository: branch -> (path -> content)
    reqs,           \* the requests: id -> task record
    lastGitWrite,   \* the latest gitStatus write: handler, status before and after
    firstCall,      \* key -> id and createdAt returned by the first upsert of the key
    lastCall,       \* key -> content and language passed by the latest upsert of the key
    lastOp          \* the latest direct call of a store or bridge method, with
                    \* its arguments and what it returned

vars == <<backend, maxInFlight, now, nextId, users, usersByEmail, projects, memFiles, dbFiles,
          aiGenerations, gitWorkspace, aiWorkspace, remote, reqs, lastGitWrite,
          firstCall, lastCall, lastOp>>

cfgVars == <<backend, maxInFlight>>
userVars == <<users, usersByEmail>>
fileVars == <<memFiles, dbFiles, nextId>>
diskVars == <<gitWorkspace, aiWorkspace, remote>>
callVars == <<firstCall, lastCall, lastOp>>

(***************************************************************************)
(* Helpers on finite maps.                                                 *)
(***************************************************************************)
EmptyMap == [k \in {} |-> Null]

MapSet(m, k, v) == [x \in (DOMAIN m) \cup {k} |-> IF x = k THEN v ELSE m[x]]

MapDelete(m, k) == [x \in (DOMAIN m) \ {k} |-> m[x]]

Range(f) == {f[x] : x \in DOMAIN f}

(***************************************************************************)
(* Entity store: project files.                                            *)
(***************************************************************************)
Key(projectId, path) == <<projectId, path>>

\* fileData: what insertProjectFileSchema.parse produced
FileData(projectId, path, content, language) ==
    [projectId |-> projectId, path |-> path, content |-> content, language |-> language]

OrDefault(v, d) == IF v = Undefined THEN d ELSE v

\* MemUpsertRow with the slip "id: this.generateId()": a new id on every write.
MemUpsertRowFreshId(files, fileData, freshId, t) ==
    LET key == Key(fileData.projectId, fileData.path)
        existing == key \in DOMAIN files
    IN  [id |-> freshId,
         projectId |-> fileData.projectId,
         path |-> fileData.path,
         content |-> OrDefault(fileData.content, DefaultContent),
         language |-> OrDefault(fileData.language, DefaultLanguage),
         createdAt |-> IF existing THEN files[key].createdAt ELSE t,
         updatedAt |-> t]

\* The row MemStorage.createOrUpdateProjectFile builds for fileData.
MemUpsertRow(files, fileData, freshId, t) ==
    LET key == Key(fileData.projectId, fileData.path)
        existing == key \in DOMAIN files
    IN  [id |-> IF existing THEN files[key].id ELSE freshId,
         projectId |-> fileData.projectId,
         path |-> fileData.path,
         content |-> OrDefault(fileData.content, DefaultContent),
         language |-> OrDefault(fileData.language, DefaultLanguage),
         createdAt |-> IF existing THEN files[key].createdAt ELSE t,
         updatedAt |-> t]

\* MemStorage.createOrUpdateProjectFile: this.projectFiles.set(key, file)
MemCreateOrUpdateProjectFile(files, fileData, freshId, t) ==
    MapSet(files, Key(fileData.projectId, fileData.path),
           MemUpsertRow(files, fileData, freshId, t))

\* DatabaseStorage.getProjectFile: the rows the select returns; the caller
\* takes the first of them, in no specified order.
DbGetProjectFile(rows, projectId, path) ==
    {row \in rows : row.projectId = projectId /\ row.path = path}

\* The update branch of DatabaseStorage.createOrUpdateProjectFile.  A value
\* that is undefined is left out of the SET clause, so the column is kept.
DbUpdateProjectFile(rows, fileData, t) ==
    {IF row.projectId = fileData.projectId /\ row.path = fileData.path
     THEN [row EXCEPT !.content = OrDefault(fileData.content, @),
                      !.language = OrDefault(fileData.language, @),
                      !.updatedAt = t]
     ELSE row : row \in rows}

\* The row of the insert branch: id and the timestamps are column defaults.
DbInsertRow(fileData, freshId, t) ==
    [id |-> freshId,
     projectId |-> fileData.projectId,
     path |-> fileData.path,
     content |-> OrDefault(fileData.content, DefaultContent),
     language |-> OrDefault(fileData.language, DefaultLanguage),
     createdAt |-> t,
     updatedAt |-> t]

DbInsertProjectFile(rows, fileData, freshId, t) ==
    rows \cup {DbInsertRow(fileData, freshId, t)}

\* All ProjectFile rows of the backend in use.
FileRows == IF backend = "mem" THEN Range(memFiles) ELSE dbFiles

RowsOfKey(projectId, path) ==
    {row \in FileRows : row.projectId = projectId /\ row.path = path}

(***************************************************************************)
(* Entity store: users.                                                    *)
(***************************************************************************)
\* The user store as one value: the rows, MemStorage's email index, and
\* whether the call that produced it threw.
UserStoreNow == [users |-> users, byEmail |-> usersByEmail, threw |-> FALSE]

\* The optional argument subscriptionId?, left out by the caller.
LeftOut(updates, f) == f = "stripeSubscriptionId" /\ updates[f] = Undefined

\* { ...user, ...updates }
Merged(user, updates) ==
    [f \in DOMAIN user |-> IF f \in DOMAIN updates THEN updates[f] ELSE user[f]]

\* MemStorage.updateUserCredits / updateUserStripeInfo / updateUserGitHubInfo:
\* throw "User not found" for an id that is not in the Map; otherwise store
\* { ...user, <fields>, updatedAt } under the id and, when the row has an
\* email, under the email.  An optional argument left out is stored as null.
MemUpdateUser(st, userId, updates, t) ==
    IF userId \notin DOMAIN st.users THEN [st EXCEPT !.threw = TRUE]
    ELSE LET given == [f \in DOMAIN updates |->
                          IF LeftOut(updates, f) THEN Null ELSE updates[f]]
             updatedUser == [Merged(st.users[userId], given) EXCEPT !.updatedAt = t]
         IN  [users |-> MapSet(st.users, userId, updatedUser),
              byEmail |-> IF updatedUser.email # Null
                          THEN MapSet(st.byEmail, updatedUser.email, updatedUser)
                          ELSE st.byEmail,
              threw |-> FALSE]

\* DatabaseStorage.updateUserCredits / updateUserStripeInfo /
\* updateUserGitHubInfo: UPDATE ... WHERE id = userId RETURNING; with no row
\* of that id nothing is updated and the method returns undefined.  A value
\* that is undefined is left out of the SET clause.
DbUpdateUser(st, userId, updates, t) ==
    IF userId \notin DOMAIN st.users THEN st
    ELSE LET given == [f \in {g \in DOMAIN updates : ~LeftOut(updates, g)} |->
                          updates[f]]
         IN  [st EXCEPT !.users = MapSet(@, userId,
                            [Merged(st.users[userId], given) EXCEPT !.updatedAt = t])]

\* MemStorage.getUserByEmail reads the email index, DatabaseStorage selects
\* the rows with the email: whether a user is returned.
GetUserByEmail(st, email) ==
    IF backend = "mem" THEN email \in DOMAIN st.byEmail
    ELSE \E u \in DOMAIN st.users : st.users[u].email = email

\* MemStorage.createUser: the row is stored under its new id and, when it has
\* an email, under the email; nothing is checked.
MemCreateUser(st, id, user) ==
    [users |-> MapSet(st.users, id, user),
     byEmail |-> IF user.email # Null THEN MapSet(st.byEmail, user.email, user)
                 ELSE st.byEmail,
     threw |-> FALSE]

\* DatabaseStorage.createUser: INSERT ... RETURNING; the email column is
\* unique, so the insert of a second row with an email fails.
DbCreateUser(st, id, user) ==
    IF user.email # Null /\ \E u \in DOMAIN st.users : st.users[u].email = user.email
    THEN [st EXCEPT !.threw = TRUE]
    ELSE [st EXCEPT !.users = MapSet(@, id, user)]

UpdateUser(st, userId, updates, t) ==
    IF backend = "mem" THEN MemUpdateUser(st, userId, updates, t)
    ELSE DbUpdateUser(st, userId, updates, t)

\* The fields each of the three methods sets from its arguments.
UserUpdates(method, a, b) ==
    CASE method = "updateUserCredits" -> [credits |-> a]
      [] method = "updateUserStripeInfo" ->
             [stripeCustomerId |-> a, stripeSubscriptionId |-> b]
      [] method = "updateUserGitHubInfo" ->
             [githubAccessToken |-> a, githubUsername |-> b]

(***************************************************************************)
(* Requests.                                                               *)
(***************************************************************************)
NoRow == [id |-> 0, projectId |-> Null, path |-> Null, content |-> Null,
          language |-> Null, createdAt |-> 0, updatedAt |-> 0]

IdleReq ==
    [kind |-> "none", pc |-> "idle", user |-> Null, projectId |-> Null,
     path |-> Null, content |-> Null, language |-> Null,  \* fileData of an upsert
     found |-> FALSE,       \* existingFile of DatabaseStorage.createOrUpdateProjectFile
     cont |-> "idle",       \* where the task resumes when the awaited upsert returns
     repoUrl |-> Null, branch |-> Null,
     todo |-> {},           \* files a sync loop has still to handle
     snap |-> EmptyMap,     \* the file list a sync loop read: path -> content
     writes |-> <<>>,       \* the gitStatus updates the task has issued
     credits |-> 0,         \* user.credits as getUser returned it
     creditsUsed |-> 0,     \* result.creditsUsed
     files |-> <<>>,        \* result.files still to be saved
     email |-> Null,        \* req.body.email of a registration
     status |-> 0]          \* HTTP status of the response, 0: none sent

InFlight == {r \in DOMAIN reqs : reqs[r].pc \notin {"idle", "done"}}

\* Request r may be issued: the requests are issued in the order of their ids.
CanStart(r) ==
    /\ reqs[r].pc = "idle"
    /\ \A q \in DOMAIN reqs : q < r => reqs[q].pc # "idle"
    /\ Cardinality(InFlight) < maxInFlight

\* res.status(code).json(...): the task ends and its locals are dropped.
Respond(r, code) ==
    [reqs EXCEPT ![r] = [IdleReq EXCEPT !.kind = reqs[r].kind, !.pc = "done",
                                        !.status = code]]

\* The bookkeeping of a completed createOrUpdateProjectFile call that returned row.
LogCall(fileData, row) ==
    LET key == Key(fileData.projectId, fileData.path)
    IN  /\ firstCall' = IF key \in DOMAIN firstCall THEN firstCall
                        ELSE MapSet(firstCall, key,
                                    [id |-> row.id, createdAt |-> row.createdAt])
        /\ lastCall' = MapSet(lastCall, key, [content |-> fileData.content,
                                              language |-> fileData.language])
        /\ lastOp' = lastOp

\* Task r, whose record is to become me, calls and awaits
\* storage.createOrUpdateProjectFile(fileData) and resumes at cont.  MemStorage
\* runs the call to its end before the task yields; DatabaseStorage yields at
\* its first query.
CallCreateOrUpdateProjectFile(r, me, fileData, cont) ==
    IF backend = "mem"
    THEN LET row == MemUpsertRow(memFiles, fileData, nextId + 1, now)
         IN  /\ memFiles' = MemCreateOrUpdateProjectFile(memFiles, fileData,
                                                        nextId + 1, now)
             /\ nextId' = IF row.id = nextId + 1 THEN nextId + 1 ELSE nextId
             /\ LogCall(fileData, row)
             /\ reqs' = [reqs EXCEPT ![r] = [me EXCEPT !.pc = cont]]
             /\ UNCHANGED dbFiles
    ELSE /\ reqs' = [reqs EXCEPT ![r] = [me EXCEPT !.pc = "lookup", !.cont = cont,
                         !.path = fileData.path, !.content = fileData.content,
                         !.language = fileData.language]]
         /\ UNCHANGED <<fileVars, callVars>>

\* DatabaseStorage.createOrUpdateProjectFile, first statement: getProjectFile.
UpsertLookup(r) ==
    /\ reqs[r].pc = "lookup"
    /\ reqs' = [reqs EXCEPT ![r].pc = "write",
                   ![r].found = (DbGetProjectFile(dbFiles, reqs[r].projectId,
                                                  reqs[r].path) # {})]
    /\ UNCHANGED <<cfgVars, now, userVars, projects, fileVars, aiGenerations, diskVars,
                   lastGitWrite, callVars>>

\* DatabaseStorage.createOrUpdateProjectFile, second statement: the update or
\* the insert, whichever the lookup chose.
UpsertWrite(r) ==
    /\ reqs[r].pc = "write"
    /\ reqs' = [reqs EXCEPT ![r].pc = reqs[r].cont, ![r].found = FALSE]
    /\ LET fileData == FileData(reqs[r].projectId, reqs[r].path,
                                reqs[r].content, reqs[r].language)
       IN  IF reqs[r].found
           THEN LET rows == DbUpdateProjectFile(dbFiles, fileData, now)
                    hit == DbGetProjectFile(rows, fileData.projectId, fileData.path)
                IN  /\ dbFiles' = rows
                    /\ nextId' = nextId
                    /\ IF hit = {}
                       THEN LogCall(fileData, NoRow)   \* [projectFile] of no rows
                       ELSE \E row \in hit : LogCall(fileData, row)
           ELSE /\ dbFiles' = DbInsertProjectFile(dbFiles, fileData, nextId + 1, now)
                /\ nextId' = nextId + 1
                /\ LogCall(fileData, DbInsertRow(fileData, nextId + 1, now))
    /\ UNCHANGED <<cfgVars, now, userVars, projects, memFiles, aiGenerations, diskVars,
                   lastGitWrite>>

(***************************************************************************)
(* PUT /api/projects/:id/files                                             *)
(***************************************************************************)
StartPutFile(r) ==
    /\ CanStart(r)
    /\ \E u \in Users, pid \in {P1, MissingProject}, path \in Paths,
          c \in Contents \cup {Undefined}, l \in Languages \cup {Undefined} :
          reqs' = [reqs EXCEPT ![r] = [IdleReq EXCEPT !.kind = "putFile",
                       !.pc = "getProject", !.user = u, !.projectId = pid,
                       !.path = path, !.content = c, !.language = l]]
    /\ UNCHANGED <<cfgVars, now, userVars, projects, fileVars, aiGenerations, diskVars,
                   lastGitWrite, callVars>>

\* getProject, the ownership check and the call of createOrUpdateProjectFile.
PutFileGetProject(r) ==
    /\ reqs[r].kind = "putFile" /\ reqs[r].pc = "getProject"
    /\ LET pid == reqs[r].projectId
           fileData == FileData(pid, reqs[r].path, reqs[r].content, reqs[r].language)
       IN  IF pid \notin DOMAIN projects
           THEN /\ reqs' = Respond(r, 404)
                /\ UNCHANGED <<fileVars, callVars>>
           ELSE IF projects[pid].userId # reqs[r].user
           THEN /\ reqs' = Respond(r, 403)
                /\ UNCHANGED <<fileVars, callVars>>
           ELSE CallCreateOrUpdateProjectFile(r, reqs[r], fileData, "putFileRespond")
    /\ UNCHANGED <<cfgVars, now, userVars, projects, aiGenerations, diskVars,
                   lastGitWrite>>

\* res.json(file)
PutFileRespond(r) ==
    /\ reqs[r].kind = "putFile" /\ reqs[r].pc = "putFileRespond"
    /\ reqs' = Respond(r, 200)
    /\ UNCHANGED <<cfgVars, now, userVars, projects, fileVars, aiGenerations, diskVars,
                   lastGitWrite, callVars>>

(***************************************************************************)
(* Entity store: projects.                                                 *)
(***************************************************************************)
\* updateProject: { ...project, ...updates, updatedAt: new Date() }.  With
\* DatabaseStorage an id that matches no row updates nothing.
UpdateProject(projs, id, updates, t) ==
    IF id \notin DOMAIN projs THEN projs
    ELSE [projs EXCEPT ![id] =
            [f \in DOMAIN projs[id] |->
                IF f = "updatedAt" THEN t
                ELSE IF f \in DOMAIN updates THEN updates[f] ELSE projs[id][f]]]

\* MemStorage.updateProject throws "Project not found".
UpdateProjectThrows(id) == backend = "mem" /\ id \notin DOMAIN projects

\* The patches the GitHub handlers pass to updateProject.
ConnectUpdates(repoUrl, branch, t) ==
    [githubRepoUrl |-> repoUrl, githubBranch |-> branch, gitStatus |-> "connected",
     lastSyncAt |-> <<t>>]

SyncingUpdates == [gitStatus |-> "syncing"]

ConnectedUpdates(t) == [gitStatus |-> "connected", lastSyncAt |-> <<t>>]

\* CatchUpdates with the slip of reporting success from the catch block.
CatchUpdatesConnected == [gitStatus |-> "connected"]

\* CatchUpdates with the slip of leaving the status as the try block set it.
CatchUpdatesSyncing == [gitStatus |-> "syncing"]

CatchUpdates == [gitStatus |-> "error"]

DisconnectUpdates ==
    [githubRepoUrl |-> Null, githubBranch |-> "main", githubAccessToken |-> Null,
     lastSyncAt |-> NoDate, gitStatus |-> "unconnected"]

\* Task r, whose record is to become me, issues updateProject(projectId, updates)
\* and goes on at pc next.
WriteProject(r, me, updates, next) ==
    LET pid == reqs[r].projectId
        entry == [status |-> updates.gitStatus,
                  sync |-> ("lastSyncAt" \in DOMAIN updates /\ updates.lastSyncAt # NoDate)]
    IN  /\ projects' = UpdateProject(projects, pid, updates, now)
        /\ lastGitWrite' = IF pid \in DOMAIN projects
                           THEN [kind |-> reqs[r].kind,
                                 from |-> projects[pid].gitStatus,
                                 to |-> updates.gitStatus]
                           ELSE lastGitWrite
        /\ reqs' = [reqs EXCEPT ![r] = [me EXCEPT !.pc = next,
                                                  !.writes = Append(@, entry)]]

(***************************************************************************)
(* POST /api/projects/:id/github/connect                                   *)
(***************************************************************************)
StartConnect(r) ==
    /\ CanStart(r)
    /\ \E u \in Users, pid \in {P1, MissingProject},
          url \in RepoUrls \cup {Undefined}, b \in Branches \cup {Undefined} :
          reqs' = [reqs EXCEPT ![r] = [IdleReq EXCEPT !.kind = "connect",
                       !.pc = "getProject", !.user = u, !.projectId = pid,
                       !.repoUrl = url,
                       !.branch = OrDefault(b, DefaultBranch)]]   \* branch = 'main'
    /\ UNCHANGED <<cfgVars, now, userVars, projects, fileVars, aiGenerations, diskVars,
                   lastGitWrite, callVars>>

ConnectGetProject(r) ==
    /\ reqs[r].kind = "connect" /\ reqs[r].pc = "getProject"
    /\ LET pid == reqs[r].projectId
       IN  reqs' = IF pid \notin DOMAIN projects THEN Respond(r, 404)
                   ELSE IF projects[pid].userId # reqs[r].user THEN Respond(r, 403)
                   ELSE IF reqs[r].repoUrl = Undefined THEN Respond(r, 400)
                   ELSE [reqs EXCEPT ![r].pc = "connectUpdate"]
    /\ UNCHANGED <<cfgVars, now, userVars, projects, fileVars, aiGenerations, diskVars,
                   lastGitWrite, callVars>>

\* updateProject and res.json(updatedProject)
ConnectUpdate(r) ==
    /\ reqs[r].kind = "connect" /\ reqs[r].pc = "connectUpdate"
    /\ IF UpdateProjectThrows(reqs[r].projectId)
       THEN /\ reqs' = Respond(r, 500)
            /\ UNCHANGED <<projects, lastGitWrite>>
       ELSE WriteProject(r, Respond(r, 200)[r],
                         ConnectUpdates(reqs[r].repoUrl, reqs[r].branch, now), "done")
    /\ UNCHANGED <<cfgVars, now, userVars, fileVars, aiGenerations, diskVars, callVars>>

(***************************************************************************)
(* DELETE /api/projects/:id/github/disconnect                              *)
(***************************************************************************)
StartDisconnect(r) ==
    /\ CanStart(r)
    /\ \E u \in Users, pid \in {P1, MissingProject} :
          reqs' = [reqs EXCEPT ![r] = [IdleReq EXCEPT !.kind = "disconnect",
                       !.pc = "getProject", !.user = u, !.projectId = pid]]
    /\ UNCHANGED <<cfgVars, now, userVars, projects, fileVars, aiGenerations, diskVars,
                   lastGitWrite, callVars>>

DisconnectGetProject(r) ==
    /\ reqs[r].kind = "disconnect" /\ reqs[r].pc = "getProject"
    /\ LET pid == reqs[r].projectId
       IN  reqs' = IF pid \notin DOMAIN projects THEN Respond(r, 404)
                   ELSE IF projects[pid].userId # reqs[r].user THEN Respond(r, 403)
                   ELSE [reqs EXCEPT ![r].pc = "disconnectUpdate"]
    /\ UNCHANGED <<cfgVars, now, userVars, projects, fileVars, aiGenerations, diskVars,
                   lastGitWrite, callVars>>

\* updateProject and res.json({ message, project })
DisconnectUpdate(r) ==
    /\ reqs[r].kind = "disconnect" /\ reqs[r].pc = "disconnectUpdate"
    /\ IF UpdateProjectThrows(reqs[r].projectId)
       THEN /\ reqs' = Respond(r, 500)
            /\ UNCHANGED <<projects, lastGitWrite>>
       ELSE WriteProject(r, Respond(r, 200)[r], DisconnectUpdates, "done")
    /\ UNCHANGED <<cfgVars, now, userVars, fileVars, aiGenerations, diskVars, callVars>>

(***************************************************************************)
(* The git bridge (server/github.ts).                                      *)
(***************************************************************************)
GitHead == ".git/HEAD"          \* stands for the .git directory of a clone
DiskOrder == <<GitHead, "a.js", "b.css">>      \* the order readdir lists files in

\* The first path of DiskOrder that is in the non-empty set todo.
NextPath(todo) ==
    DiskOrder[CHOOSE i \in 1..Len(DiskOrder) :
                 /\ DiskOrder[i] \in todo
                 /\ \A j \in 1..(i - 1) : DiskOrder[j] \notin todo]

\* The names of the model that begin with ".git", and those that contain
\* "node_modules".
BeginsWithDotGit == {".git", ".gitignore", ".github"}
ContainsNodeModules == {"node_modules"}

\* A relative path as the sequence of its names, directories first.
Segments(path) == IF path = GitHead THEN <<".git", "HEAD">> ELSE <<path>>

\* relativePath.startsWith('.git') || relativePath.includes('node_modules'),
\* on a path given by its names.
SkippedByReimport(names) ==
    \/ names[1] \in BeginsWithDotGit
    \/ \E i \in DOMAIN names : names[i] \in ContainsNodeModules

SkippedBySync(path) == SkippedByReimport(Segments(path))

\* path.extname, on the paths of the model.
ExtName(path) ==
    CASE path = "a.js" -> ".js"
      [] path = "b.css" -> ".css"
      [] path = "ci.yml" -> ".yml"
      [] path = "logo.png" -> ".png"
      [] OTHER -> ""

\* GitHubService.getLanguageFromExtension
GetLanguageFromExtension(ext) ==
    CASE ext \in {".js", ".jsx"} -> "javascript"
      [] ext \in {".ts", ".tsx"} -> "typescript"
      [] ext = ".py" -> "python"
      [] ext = ".java" -> "java"
      [] ext = ".cpp" -> "cpp"
      [] ext = ".c" -> "c"
      [] ext = ".css" -> "css"
      [] ext = ".html" -> "html"
      [] ext = ".json" -> "json"
      [] ext = ".md" -> "markdown"
      [] ext \in {".yml", ".yaml"} -> "yaml"
      [] ext = ".xml" -> "xml"
      [] ext = ".sql" -> "sql"
      [] ext = ".sh" -> "bash"
      [] ext = ".rb" -> "ruby"
      [] ext = ".php" -> "php"
      [] ext = ".go" -> "go"
      [] ext = ".rs" -> "rust"
      [] OTHER -> "text"

\* The directory of a project's git workspace; no entry: the directory is missing.
WorkspaceOf(pid) == IF pid \in DOMAIN gitWorkspace THEN gitWorkspace[pid] ELSE EmptyMap

IsRepository(tree) == GitHead \in DOMAIN tree

\* Tracked with b.css left untracked.
TrackedButStyles(tree) == [path \in (DOMAIN tree) \ {GitHead, "b.css"} |-> tree[path]]

\* The files of a working tree that git tracks.
Tracked(tree) == [path \in (DOMAIN tree) \ {GitHead} |-> tree[path]]

\* The working tree after a checkout of the files of repo over tree.
Checkout(tree, repo) ==
    [path \in (DOMAIN tree) \cup (DOMAIN repo) \cup {GitHead} |->
        IF path \in DOMAIN repo THEN repo[path]
        ELSE IF path = GitHead THEN "ref" ELSE tree[path]]

(***************************************************************************)
(* POST /api/projects/:id/github/clone, /push and /pull                    *)
(***************************************************************************)
SyncKinds == {"clone", "push", "pull"}

StartSync(r) ==
    /\ CanStart(r)
    /\ \E k \in SyncKinds, u \in Users, pid \in {P1, MissingProject} :
          reqs' = [reqs EXCEPT ![r] = [IdleReq EXCEPT !.kind = k,
                       !.pc = "getProject", !.user = u, !.projectId = pid]]
    /\ UNCHANGED <<cfgVars, now, userVars, projects, fileVars, aiGenerations, diskVars,
                   lastGitWrite, callVars>>

\* getProject and the ownership check; project is kept for the later checks
SyncGetProject(r) ==
    /\ reqs[r].kind \in SyncKinds /\ reqs[r].pc = "getProject"
    /\ LET pid == reqs[r].projectId
       IN  reqs' = IF pid \notin DOMAIN projects THEN Respond(r, 404)
                   ELSE IF projects[pid].userId # reqs[r].user THEN Respond(r, 403)
                   ELSE [reqs EXCEPT ![r].pc = "getUser",
                                     ![r].repoUrl = projects[pid].githubRepoUrl]
    /\ UNCHANGED <<cfgVars, now, userVars, projects, fileVars, aiGenerations, diskVars,
                   lastGitWrite, callVars>>

\* getUser, then the checks of user.githubAccessToken and project.githubRepoUrl
SyncGetUser(r) ==
    /\ reqs[r].kind \in SyncKinds /\ reqs[r].pc = "getUser"
    /\ reqs' = IF users[reqs[r].user].githubAccessToken = Null THEN Respond(r, 400)
               ELSE IF reqs[r].repoUrl = Null THEN Respond(r, 400)
               ELSE [reqs EXCEPT ![r].pc = "setSyncing"]
    /\ UNCHANGED <<cfgVars, now, userVars, projects, fileVars, aiGenerations, diskVars,
                   lastGitWrite, callVars>>

\* updateProject(id, { gitStatus: 'syncing' })
SyncSetSyncing(r) ==
    /\ reqs[r].kind \in SyncKinds /\ reqs[r].pc = "setSyncing"
    /\ IF UpdateProjectThrows(reqs[r].projectId)
       THEN /\ reqs' = [reqs EXCEPT ![r].pc = "catch"]
            /\ UNCHANGED <<projects, lastGitWrite>>
       ELSE WriteProject(r, reqs[r], SyncingUpdates,
                         CASE reqs[r].kind = "clone" -> "cloneRepository"
                           [] reqs[r].kind = "push" -> "getProjectFiles"
                           [] reqs[r].kind = "pull" -> "pullFromRepository")
    /\ UNCHANGED <<cfgVars, now, userVars, fileVars, aiGenerations, diskVars, callVars>>

\* The branch a clone without a branch option checks out: the repository's HEAD.
RemoteHead == "main"

\* GitHubService.cloneRepository: mkdir, then git clone into the directory,
\* which git refuses when the directory is not empty; the clone may also fail
\* for reasons of the network or the remote.
CloneRepository(r) ==
    /\ reqs[r].kind = "clone" /\ reqs[r].pc = "cloneRepository"
    /\ LET pid == reqs[r].projectId
       IN  \/ /\ DOMAIN WorkspaceOf(pid) = {}
              /\ gitWorkspace' = MapSet(gitWorkspace, pid,
                                        Checkout(EmptyMap, remote[RemoteHead]))
              /\ reqs' = [reqs EXCEPT ![r].pc = "walk"]
           \/ /\ gitWorkspace' = MapSet(gitWorkspace, pid, WorkspaceOf(pid))
              /\ reqs' = [reqs EXCEPT ![r].pc = "catch"]
    /\ UNCHANGED <<cfgVars, now, userVars, projects, fileVars, aiGenerations, aiWorkspace,
                   remote, lastGitWrite, callVars>>

\* GitHubService.pullFromRepository: git pull origin main in the workspace
PullFromRepository(r) ==
    /\ reqs[r].kind = "pull" /\ reqs[r].pc = "pullFromRepository"
    /\ LET pid == reqs[r].projectId
       IN  \/ /\ IsRepository(WorkspaceOf(pid))
              /\ gitWorkspace' = MapSet(gitWorkspace, pid,
                                        Checkout(WorkspaceOf(pid), remote["main"]))
              /\ reqs' = [reqs EXCEPT ![r].pc = "walk"]
           \/ /\ reqs' = [reqs EXCEPT ![r].pc = "catch"]
              /\ UNCHANGED gitWorkspace
    /\ UNCHANGED <<cfgVars, now, userVars, projects, fileVars, aiGenerations, aiWorkspace,
                   remote, lastGitWrite, callVars>>

\* GitHubService.syncWorkspaceToProject: getAllFilesInDirectory, which throws
\* when the directory cannot be read, and the filter of the loop
SyncWalk(r) ==
    /\ reqs[r].kind \in {"clone", "pull"} /\ reqs[r].pc = "walk"
    /\ LET pid == reqs[r].projectId
       IN  \/ /\ pid \in DOMAIN gitWorkspace
              /\ reqs' = [reqs EXCEPT ![r].pc = "syncFile",
                            ![r].todo = {path \in DOMAIN gitWorkspace[pid] :
                                            ~SkippedBySync(path)}]
           \/ reqs' = [reqs EXCEPT ![r].pc = "catch"]
    /\ UNCHANGED <<cfgVars, now, userVars, projects, fileVars, aiGenerations, diskVars,
                   lastGitWrite, callVars>>

\* GitHubService.syncWorkspaceToProject: one turn of the loop, readFile and
\* createOrUpdateProjectFile; after the last file the handler goes on.
SyncFile(r) ==
    /\ reqs[r].kind \in {"clone", "pull"} /\ reqs[r].pc = "syncFile"
    /\ LET pid == reqs[r].projectId
           path == NextPath(reqs[r].todo)
       IN  IF reqs[r].todo = {}
           THEN /\ reqs' = [reqs EXCEPT ![r].pc = "setConnected"]
                /\ UNCHANGED <<fileVars, callVars>>
           ELSE IF path \notin DOMAIN WorkspaceOf(pid)     \* readFile throws
           THEN /\ reqs' = [reqs EXCEPT ![r].pc = "catch", ![r].todo = {}]
                /\ UNCHANGED <<fileVars, callVars>>
           ELSE CallCreateOrUpdateProjectFile(r,
                    [reqs[r] EXCEPT !.todo = @ \ {path}],
                    FileData(pid, path, gitWorkspace[pid][path],
                             GetLanguageFromExtension(ExtName(path))),
                    "syncFile")
    /\ UNCHANGED <<cfgVars, now, userVars, projects, aiGenerations, diskVars, lastGitWrite>>

\* GitHubService.syncProjectToWorkspace: getProjectFiles and mkdir of the
\* workspace directory, which may fail
PushGetProjectFiles(r) ==
    /\ reqs[r].kind = "push" /\ reqs[r].pc = "getProjectFiles"
    /\ LET pid == reqs[r].projectId
           paths == {row.path : row \in {x \in FileRows : x.projectId = pid}}
       IN  \/ /\ \E snap \in [paths -> {row.content : row \in FileRows}] :
                   /\ \A path \in paths :
                        \E row \in RowsOfKey(pid, path) : row.content = snap[path]
                   /\ reqs' = [reqs EXCEPT ![r].pc = "writeFile", ![r].snap = snap,
                                           ![r].todo = paths]
              /\ gitWorkspace' = MapSet(gitWorkspace, pid, WorkspaceOf(pid))
           \/ /\ reqs' = [reqs EXCEPT ![r].pc = "catch"]
              /\ UNCHANGED gitWorkspace
    /\ UNCHANGED <<cfgVars, now, userVars, projects, fileVars, aiGenerations, aiWorkspace,
                   remote, lastGitWrite, callVars>>

\* GitHubService.syncProjectToWorkspace: one turn of the loop, mkdir and
\* writeFile; after the last file the handler goes on to pushToRepository.
PushWriteFile(r) ==
    /\ reqs[r].kind = "push" /\ reqs[r].pc = "writeFile"
    /\ LET pid == reqs[r].projectId
           path == NextPath(reqs[r].todo)
       IN  IF reqs[r].todo = {}
           THEN /\ reqs' = [reqs EXCEPT ![r].pc = "pushToRepository",
                                        ![r].snap = EmptyMap]
                /\ UNCHANGED gitWorkspace
           ELSE /\ gitWorkspace' = MapSet(gitWorkspace, pid,
                                     MapSet(WorkspaceOf(pid), path, reqs[r].snap[path]))
                /\ reqs' = [reqs EXCEPT ![r].todo = @ \ {path}]
    /\ UNCHANGED <<cfgVars, now, userVars, projects, fileVars, aiGenerations, aiWorkspace,
                   remote, lastGitWrite, callVars>>

\* GitHubService.pushToRepository: git add, commit and push origin main; any
\* of them may fail (no repository, nothing to commit, network, rejected push).
PushToRepository(r) ==
    /\ reqs[r].kind = "push" /\ reqs[r].pc = "pushToRepository"
    /\ LET pid == reqs[r].projectId
       IN  \/ /\ IsRepository(WorkspaceOf(pid))
              /\ remote' = [remote EXCEPT !["main"] = Tracked(WorkspaceOf(pid))]
              /\ reqs' = [reqs EXCEPT ![r].pc = "setConnected"]
           \/ /\ reqs' = [reqs EXCEPT ![r].pc = "catch"]
              /\ UNCHANGED remote
    /\ UNCHANGED <<cfgVars, now, userVars, projects, fileVars, aiGenerations, gitWorkspace,
                   aiWorkspace, lastGitWrite, callVars>>

\* updateProject(id, { gitStatus: 'connected', lastSyncAt: new Date() })
SyncSetConnected(r) ==
    /\ reqs[r].kind \in SyncKinds /\ reqs[r].pc = "setConnected"
    /\ IF UpdateProjectThrows(reqs[r].projectId)
       THEN /\ reqs' = [reqs EXCEPT ![r].pc = "catch"]
            /\ UNCHANGED <<projects, lastGitWrite>>
       ELSE WriteProject(r, reqs[r], ConnectedUpdates(now), "respondOk")
    /\ UNCHANGED <<cfgVars, now, userVars, fileVars, aiGenerations, diskVars, callVars>>

\* res.json({ message, ... })
SyncRespondOk(r) ==
    /\ reqs[r].kind \in SyncKinds /\ reqs[r].pc = "respondOk"
    /\ reqs' = Respond(r, 200)
    /\ UNCHANGED <<cfgVars, now, userVars, projects, fileVars, aiGenerations, diskVars,
                   lastGitWrite, callVars>>

\* The catch block: updateProject(id, { gitStatus: 'error' }); when that
\* throws, the handler ends without a response.
SyncCatch(r) ==
    /\ reqs[r].kind \in SyncKinds /\ reqs[r].pc = "catch"
    /\ IF UpdateProjectThrows(reqs[r].projectId)
       THEN /\ reqs' = Respond(r, 0)
            /\ UNCHANGED <<projects, lastGitWrite>>
       ELSE WriteProject(r, reqs[r], CatchUpdates, "respondFail")
    /\ UNCHANGED <<cfgVars, now, userVars, fileVars, aiGenerations, diskVars, callVars>>

\* res.status(500).json({ message })
SyncRespondFail(r) ==
    /\ reqs[r].kind \in SyncKinds /\ reqs[r].pc = "respondFail"
    /\ reqs' = Respond(r, 500)
    /\ UNCHANGED <<cfgVars, now, userVars, projects, fileVars, aiGenerations, diskVars,
                   lastGitWrite, callVars>>

(***************************************************************************)
(* The AI routes: /api/ai/generate, /chat, /analyze-project and            *)
(* /generate-with-context.                                                 *)
(***************************************************************************)
AiKinds == {"generate", "chat", "analyze", "generateWithContext"}

\* The balance each route asks for before it calls the model.
Threshold(kind) ==
    CASE kind = "generate" -> 10
      [] kind = "chat" -> 5
      [] kind = "analyze" -> 10
      [] kind = "generateWithContext" -> 15

CeilDiv(a, b) == (a + b - 1) \div b

\* The token usage the model reports; total 0: the response carries no usage.
Usages ==
    {[total |-> 0, input |-> 2000, output |-> 400],
     [total |-> 120000, input |-> 100000, output |-> 4000]}

\* creditsUsed as generateCode, chatWithAI, analyzeProjectWithAI and
\* generateCodeWithContext compute it.
CreditsUsed(kind, usage) ==
    CASE kind = "generate" ->
            CeilDiv(IF usage.total = 0 THEN 1000 ELSE usage.total, 100)
      [] kind = "chat" ->
            CeilDiv(IF usage.total = 0 THEN 500 ELSE usage.total, 100)
      [] kind \in {"analyze", "generateWithContext"} ->
            CeilDiv(usage.input, 1000) + CeilDiv(usage.output, 500)

\* The model of the record a route saves: req.body.model, defaulted.
ModelOf(kind) ==
    IF kind \in {"generate", "chat"} THEN "gpt-4o" ELSE "claude-sonnet-4-20250514"

\* The file lists generateCodeWithContext may return.
GeneratedFiles ==
    {<<>>,
     <<[path |-> "a.js", content |-> "x", language |-> "javascript"]>>}

\* DeductedCredits with the balance taken from the store at the time of the write.
DeductedFromStore(readCredits, storedCredits, used) == storedCredits - used

\* The balance a route passes to updateUserCredits: (user.credits ?? 0) -
\* result.creditsUsed, with user as getUser returned it before the model call.
DeductedCredits(readCredits, storedCredits, used) == readCredits - used

\* updateUserCredits(userId, credits) of the backend in use
UpdateUserCredits(st, userId, credits, t) ==
    UpdateUser(st, userId, UserUpdates("updateUserCredits", credits, Undefined), t)

\* createAiGeneration
NewAiGeneration(id, userId, projectId, used, model) ==
    [id |-> id, userId |-> userId, projectId |-> projectId, creditsUsed |-> used,
     model |-> model]

\* createProjectWorkspace: the stored files of the project written over the
\* directory temp/workspaces/<projectId>.
ProjectWorkspace(tree, pid) ==
    LET rows == {row \in FileRows : row.projectId = pid}
    IN  [path \in (DOMAIN tree) \cup {row.path : row \in rows} |->
            IF \E row \in rows : row.path = path
            THEN LET c == (CHOOSE row \in rows : row.path = path).content
                 IN  IF c \in {Null, Undefined} THEN "" ELSE c     \* file.content || ''
            ELSE tree[path]]

StartAi(r) ==
    /\ CanStart(r)
    /\ \E k \in AiKinds, u \in Users, pid \in {P1, Undefined} :
          \* generate and chat only record projectId
          /\ k \in {"generate", "chat"} => pid = Undefined
          /\ reqs' = [reqs EXCEPT ![r] = [IdleReq EXCEPT !.kind = k, !.pc = "getUser",
                                                      !.user = u, !.projectId = pid]]
    /\ UNCHANGED <<cfgVars, now, userVars, projects, fileVars, aiGenerations, diskVars,
                   lastGitWrite, callVars>>

\* getUser, the check of the balance and, in the two routes that take a
\* project, the check of projectId
AiGetUser(r) ==
    /\ reqs[r].kind \in AiKinds /\ reqs[r].pc = "getUser"
    /\ LET u == reqs[r].user
           k == reqs[r].kind
       IN  reqs' =
             IF u \notin DOMAIN users \/ users[u].credits < Threshold(k)
             THEN Respond(r, 400)                      \* "Insufficient credits"
             ELSE IF k \in {"analyze", "generateWithContext"}
                     /\ reqs[r].projectId = Undefined
             THEN Respond(r, 400)                      \* "Project ID required"
             ELSE [reqs EXCEPT ![r].credits = users[u].credits,
                       ![r].pc = IF k \in {"analyze", "generateWithContext"}
                                 THEN "createWorkspace" ELSE "callModel"]
    /\ UNCHANGED <<cfgVars, now, userVars, projects, fileVars, aiGenerations, diskVars,
                   lastGitWrite, callVars>>

\* createProjectWorkspace(projectId), which may fail
AiCreateWorkspace(r) ==
    /\ reqs[r].kind \in AiKinds /\ reqs[r].pc = "createWorkspace"
    /\ LET pid == reqs[r].projectId
           tree == IF pid \in DOMAIN aiWorkspace THEN aiWorkspace[pid] ELSE EmptyMap
       IN  \/ /\ aiWorkspace' = MapSet(aiWorkspace, pid, ProjectWorkspace(tree, pid))
              /\ reqs' = [reqs EXCEPT ![r].pc = "callModel"]
           \/ /\ reqs' = Respond(r, 500)
              /\ UNCHANGED aiWorkspace
    /\ UNCHANGED <<cfgVars, now, userVars, projects, fileVars, aiGenerations, gitWorkspace,
                   remote, lastGitWrite, callVars>>

\* generateCode, chatWithAI, analyzeProjectWithAI or generateCodeWithContext:
\* the model answers with a usage (and files), or the call throws.
AiCallModel(r) ==
    /\ reqs[r].kind \in AiKinds /\ reqs[r].pc = "callModel"
    /\ \/ \E usage \in Usages, files \in GeneratedFiles :
            /\ reqs[r].kind # "generateWithContext" => files = <<>>
            /\ reqs' = [reqs EXCEPT ![r].creditsUsed = CreditsUsed(reqs[r].kind, usage),
                          ![r].files = files,
                          ![r].pc = IF reqs[r].kind = "generateWithContext"
                                    THEN "saveFiles" ELSE "deduct"]
       \/ reqs' = Respond(r, 500)
    /\ UNCHANGED <<cfgVars, now, userVars, projects, fileVars, aiGenerations, diskVars,
                   lastGitWrite, callVars>>

\* generate-with-context: one turn of the loop over result.files
AiSaveFile(r) ==
    /\ reqs[r].kind = "generateWithContext" /\ reqs[r].pc = "saveFiles"
    /\ IF reqs[r].files = <<>>
       THEN /\ reqs' = [reqs EXCEPT ![r].pc = "deduct"]
            /\ UNCHANGED <<fileVars, callVars>>
       ELSE LET file == Head(reqs[r].files)
            IN  CallCreateOrUpdateProjectFile(r,
                    [reqs[r] EXCEPT !.files = Tail(@)],
                    FileData(reqs[r].projectId, file.path, file.content, file.language),
                    "saveFiles")
    /\ UNCHANGED <<cfgVars, now, userVars, projects, aiGenerations, diskVars, lastGitWrite>>

\* updateUserCredits(userId, (user.credits ?? 0) - result.creditsUsed)
AiDeduct(r) ==
    /\ reqs[r].kind \in AiKinds /\ reqs[r].pc = "deduct"
    /\ LET u == reqs[r].user
           st == UpdateUserCredits(UserStoreNow, u,
                     DeductedCredits(reqs[r].credits,
                                     IF u \in DOMAIN users THEN users[u].credits ELSE 0,
                                     reqs[r].creditsUsed), now)
       IN  /\ users' = st.users
           /\ usersByEmail' = st.byEmail
           /\ reqs' = IF st.threw THEN Respond(r, 500)      \* "User not found"
                      ELSE [reqs EXCEPT ![r].pc = "record"]
    /\ UNCHANGED <<cfgVars, now, projects, fileVars, aiGenerations, diskVars,
                   lastGitWrite, callVars>>

\* createAiGeneration({ userId, projectId, prompt, response, creditsUsed, model })
AiRecord(r) ==
    /\ reqs[r].kind \in AiKinds /\ reqs[r].pc = "record"
    /\ aiGenerations' = aiGenerations \cup
           {NewAiGeneration(nextId + 1, reqs[r].user, reqs[r].projectId,
                            reqs[r].creditsUsed, ModelOf(reqs[r].kind))}
    /\ nextId' = nextId + 1
    /\ reqs' = [reqs EXCEPT ![r].pc = "aiRespond"]
    /\ UNCHANGED <<cfgVars, now, userVars, projects, memFiles, dbFiles, diskVars,
                   lastGitWrite, callVars>>

\* res.json(result)
AiRespond(r) ==
    /\ reqs[r].kind \in AiKinds /\ reqs[r].pc = "aiRespond"
    /\ reqs' = Respond(r, 200)
    /\ UNCHANGED <<cfgVars, now, userVars, projects, fileVars, aiGenerations, diskVars,
                   lastGitWrite, callVars>>

\* The wall clock advances.
Tick ==
    /\ now < MaxClock
    /\ now' = now + 1
    /\ UNCHANGED <<cfgVars, userVars, projects, fileVars, aiGenerations, diskVars, reqs,
                   lastGitWrite, callVars>>

(***************************************************************************)
(* Initial states.                                                         *)
(***************************************************************************)
NewUser(email, credits, token) ==
    [email |-> email, credits |-> credits, stripeCustomerId |-> Null,
     stripeSubscriptionId |-> Null, githubAccessToken |-> token,
     githubUsername |-> Null, updatedAt |-> 1]

\* The emails of the users the behaviours start with.
EmailOf(u) == IF u = "u1" THEN "a@x" ELSE "b@x"

\* MemStorage.usersByEmail for the rows us, each entered by createUser.
EmailIndex(us) ==
    IF backend = "mem" THEN [e \in {us[u].email : u \in DOMAIN us} \ {Null} |->
                                us[CHOOSE u \in DOMAIN us : us[u].email = e]]
    ELSE EmptyMap

NewProject(userId) ==
    [userId |-> userId, githubRepoUrl |-> Null, githubBranch |-> DefaultBranch,
     githubAccessToken |-> Null, lastSyncAt |-> NoDate, gitStatus |-> "unconnected",
     name |-> "n", template |-> "react", status |-> "draft",
     slot |-> 0,            \* position of the entry in MemStorage.projects (a Map)
     updatedAt |-> 1]

\* A project after a connect request of its owner.
ConnectedProject(userId) ==
    [NewProject(userId) EXCEPT !.githubRepoUrl = "https://github.com/o/r",
                               !.gitStatus = "connected", !.lastSyncAt = <<1>>]

\* The repository: one file, whose content differs between the branches.
InitialRemote ==
    [b \in Branches |-> [path \in {"a.js"} |-> IF b = "main" THEN "y" ELSE "x"]]

\* A store holding two users and no files.
InitStore ==
    /\ backend \in {"mem", "db"}
    /\ now = 1
    /\ nextId = 0
    /\ users = [u \in Users |-> IF u = "u1" THEN NewUser(EmailOf(u), DefaultCredits, "tok")
                                             ELSE NewUser(EmailOf(u), 7, Null)]
    /\ usersByEmail = EmailIndex(users)
    /\ memFiles = EmptyMap
    /\ dbFiles = {}
    /\ aiGenerations = {}
    /\ gitWorkspace = EmptyMap
    /\ aiWorkspace = EmptyMap
    /\ remote = InitialRemote
    /\ lastGitWrite = [kind |-> "none", from |-> "unconnected", to |-> "unconnected"]
    /\ firstCall = EmptyMap
    /\ lastCall = EmptyMap
    /\ lastOp = [op |-> "none", n |-> 0]

FilesNext ==
    \/ \E r \in DOMAIN reqs : StartPutFile(r)
    \/ \E r \in DOMAIN reqs : PutFileGetProject(r)
    \/ \E r \in DOMAIN reqs : UpsertLookup(r)
    \/ \E r \in DOMAIN reqs : UpsertWrite(r)
    \/ \E r \in DOMAIN reqs : PutFileRespond(r)
    \/ Tick

\* createOrUpdateProjectFile calls issued one after another.
SeqFilesInit ==
    /\ InitStore
    /\ maxInFlight = 1
    /\ projects = [pid \in {P1} |-> NewProject("u1")]
    /\ reqs = [r \in 1..MaxRequests |-> IdleReq]
SeqFilesSpec == SeqFilesInit /\ [][FilesNext]_vars

\* PUT files requests running concurrently.
FilesInit ==
    /\ InitStore
    /\ maxInFlight = 2
    /\ projects = [pid \in {P1} |-> NewProject("u1")]
    /\ reqs = [r \in 1..MaxRequests |-> IdleReq]
FilesSpec == FilesInit /\ [][FilesNext]_vars

\* The steps of the GitHub handlers of request r, without its arrival.
GitStep(r) ==
    \/ ConnectGetProject(r)
    \/ ConnectUpdate(r)
    \/ DisconnectGetProject(r)
    \/ DisconnectUpdate(r)
    \/ SyncGetProject(r)
    \/ SyncGetUser(r)
    \/ SyncSetSyncing(r)
    \/ CloneRepository(r)
    \/ PullFromRepository(r)
    \/ SyncWalk(r)
    \/ SyncFile(r)
    \/ UpsertLookup(r)
    \/ UpsertWrite(r)
    \/ PushGetProjectFiles(r)
    \/ PushWriteFile(r)
    \/ PushToRepository(r)
    \/ SyncSetConnected(r)
    \/ SyncRespondOk(r)
    \/ SyncCatch(r)
    \/ SyncRespondFail(r)

GitNext ==
    \/ \E r \in DOMAIN reqs : StartConnect(r)
    \/ \E r \in DOMAIN reqs : StartDisconnect(r)
    \/ \E r \in DOMAIN reqs : StartSync(r)
    \/ \E r \in DOMAIN reqs : GitStep(r)

\* The GitHub handlers on a project of u1, fresh or connected, two requests
\* at a time; the repository holds one file.
GitInit ==
    /\ InitStore
    /\ maxInFlight = 2
    /\ projects \in [{P1} -> {NewProject("u1"), ConnectedProject("u1")}]
    /\ reqs = [r \in 1..MaxGitRequests |-> IdleReq]
GitSpec == GitInit /\ [][GitNext]_vars

\* GitSpec where every storage, filesystem and git call of an issued request
\* returns: a task that can take a step eventually takes it.
GitFairSpec == GitSpec /\ \A r \in 1..MaxGitRequests : WF_vars(GitStep(r))

AiNext ==
    \/ \E r \in DOMAIN reqs : StartAi(r)
    \/ \E r \in DOMAIN reqs : AiGetUser(r)
    \/ \E r \in DOMAIN reqs : AiCreateWorkspace(r)
    \/ \E r \in DOMAIN reqs : AiCallModel(r)
    \/ \E r \in DOMAIN reqs : AiSaveFile(r)
    \/ \E r \in DOMAIN reqs : UpsertLookup(r)
    \/ \E r \in DOMAIN reqs : UpsertWrite(r)
    \/ \E r \in DOMAIN reqs : AiDeduct(r)
    \/ \E r \in DOMAIN reqs : AiRecord(r)
    \/ \E r \in DOMAIN reqs : AiRespond(r)

\* The AI routes, two requests at a time: u1 holds the credits of a new user,
\* u2 few.
AiInit ==
    /\ InitStore
    /\ maxInFlight = 2
    /\ projects = [pid \in {P1} |-> NewProject("u1")]
    /\ reqs = [r \in 1..MaxAiRequests |-> IdleReq]
AiSpec == AiInit /\ [][AiNext]_vars

(***************************************************************************)
(* The store methods called directly, one call at a time, by one caller    *)
(* (IStorage as a test drives it).                                         *)
(***************************************************************************)
\* The injective sequences over the finite set S.
Orderings(S) ==
    {seq \in [1..Cardinality(S) -> S] :
        \A i, j \in 1..Cardinality(S) : i # j => seq[i] # seq[j]}

\* getUserProjects: the results the call may return, as sequences of ids.
\* MemStorage filters the values of the Map, in insertion order, and sorts
\* them by updatedAt descending with the stable Array.prototype.sort;
\* DatabaseStorage selects with ORDER BY updated_at DESC, which leaves the
\* order of equal keys open.
GetUserProjects(projs, userId) ==
    LET mine == {id \in DOMAIN projs : projs[id].userId = userId}
    IN  {seq \in Orderings(mine) :
            \A i, j \in 1..Len(seq) : i < j =>
                \/ projs[seq[i]].updatedAt > projs[seq[j]].updatedAt
                \/ /\ projs[seq[i]].updatedAt = projs[seq[j]].updatedAt
                   /\ backend = "mem" => projs[seq[i]].slot < projs[seq[j]].slot}

\* The paths of the model as localeCompare and the column's collation order them.
PathOrder == <<"a.js", "b.css">>
PathRank(path) == CHOOSE i \in 1..Len(PathOrder) : PathOrder[i] = path

\* a.path.localeCompare(b.path)
LocaleCompare(a, b) == PathRank(a) - PathRank(b)

\* Array.from(this.projectFiles.values()).filter(...): the rows of the
\* project in the order of the Map, which is the order of insertion (ids are
\* handed out in that order, and a set() of a present key keeps its place).
RECURSIVE InMapOrder(_)
InMapOrder(rows) ==
    IF rows = {} THEN <<>>
    ELSE LET first == CHOOSE row \in rows : \A other \in rows : row.id <= other.id
         IN  <<first>> \o InMapOrder(rows \ {first})

\* One step of the stable sort: row goes behind every element that does not
\* compare greater.
InsertByPath(sorted, row) ==
    LET k == Cardinality({i \in 1..Len(sorted) :
                              LocaleCompare(sorted[i].path, row.path) <= 0})
    IN  SubSeq(sorted, 1, k) \o <<row>> \o SubSeq(sorted, k + 1, Len(sorted))

\* SortByPath with the sort left out.
SortByPathOmitted(seq) == seq

\* .sort((a, b) => a.path.localeCompare(b.path))
RECURSIVE SortByPath(_)
SortByPath(seq) ==
    IF seq = <<>> THEN <<>>
    ELSE InsertByPath(SortByPath(SubSeq(seq, 1, Len(seq) - 1)), seq[Len(seq)])

\* MemStorage.getProjectFiles
MemGetProjectFiles(files, projectId) ==
    SortByPath(InMapOrder({row \in Range(files) : row.projectId = projectId}))

\* DatabaseStorage.getProjectFiles: the rows of the project ordered by path,
\* rows of equal path in any order.
DbGetProjectFiles(rows, projectId) ==
    LET mine == {row \in rows : row.projectId = projectId}
    IN  {seq \in Orderings(mine) :
            \A i, j \in 1..Len(seq) : i < j =>
                LocaleCompare(seq[i].path, seq[j].path) <= 0}

\* getProjectFiles of the backend in use: the results the call may return.
GetProjectFiles(projectId) ==
    IF backend = "mem" THEN {MemGetProjectFiles(memFiles, projectId)}
    ELSE DbGetProjectFiles(dbFiles, projectId)

\* MemDeleteProject with the scan of the files left out.
MemDeleteProjectNoScan(files, id) == files

\* MemStorage.deleteProject, the part on projectFiles: every key whose file
\* has the project's id is deleted.
MemDeleteProject(files, id) ==
    [key \in {k \in DOMAIN files : files[k].projectId # id} |-> files[key]]

\* DatabaseStorage.deleteProject, the part on project_files: the rows that
\* reference the deleted project go with it (the cascade of the table's
\* foreign key, declared in the schema).
DbDeleteProject(rows, id) == {row \in rows : row.projectId # id}

\* deleteProjectFile
MemDeleteProjectFile(files, projectId, path) ==
    [key \in (DOMAIN files) \ {Key(projectId, path)} |-> files[key]]

DbDeleteProjectFile(rows, projectId, path) ==
    {row \in rows : ~(row.projectId = projectId /\ row.path = path)}

\* DbCreateOrUpdateProjectFile without the lookup: every call inserts.
DbCreateOrUpdateAlwaysInsert(rows, fileData, freshId, t) ==
    DbInsertProjectFile(rows, fileData, freshId, t)

\* DatabaseStorage.createOrUpdateProjectFile run to its end with no other
\* call in between.
DbCreateOrUpdateProjectFile(rows, fileData, freshId, t) ==
    IF DbGetProjectFile(rows, fileData.projectId, fileData.path) # {}
    THEN DbUpdateProjectFile(rows, fileData, t)
    ELSE DbInsertProjectFile(rows, fileData, freshId, t)

\* The rows of a set without their timestamps.
Untimed(rows) ==
    {[id |-> row.id, projectId |-> row.projectId, path |-> row.path,
      content |-> row.content, language |-> row.language] : row \in rows}

RowsOfProject(projectId) == {row \in FileRows : row.projectId = projectId}

\* The patches of the direct updateProject calls: {} and one field.
Patches == {EmptyMap, [name |-> "m"]}

CanCall == lastOp.n < MaxStoreCalls

StoreUpdateProject ==
    /\ CanCall
    /\ \E id \in {P1, P2, MissingProject}, updates \in Patches :
          /\ projects' = UpdateProject(projects, id, updates, now)
          /\ lastOp' = [op |-> "updateProject", n |-> lastOp.n + 1, id |-> id,
                        threw |-> UpdateProjectThrows(id)]
    /\ UNCHANGED <<cfgVars, now, userVars, fileVars, aiGenerations, diskVars, reqs,
                   lastGitWrite, firstCall, lastCall>>

StoreDeleteProject ==
    /\ CanCall
    /\ \E id \in {P1, P2, MissingProject} :
          /\ projects' = [p \in (DOMAIN projects) \ {id} |-> projects[p]]
          /\ memFiles' = IF backend = "mem" THEN MemDeleteProject(memFiles, id)
                         ELSE memFiles
          /\ dbFiles' = IF backend = "db" THEN DbDeleteProject(dbFiles, id) ELSE dbFiles
          /\ lastOp' = [op |-> "deleteProject", n |-> lastOp.n + 1, id |-> id,
                        had |-> RowsOfProject(id),
                        others |-> FileRows \ RowsOfProject(id)]
    /\ UNCHANGED <<cfgVars, now, nextId, userVars, aiGenerations, diskVars, reqs,
                   lastGitWrite, firstCall, lastCall>>

StoreCreateOrUpdateProjectFile ==
    /\ CanCall
    /\ \E pid \in {P1, P2}, path \in Paths,
          body \in {[content |-> "x", language |-> "css"],
                    [content |-> "y", language |-> Undefined]} :
          LET fileData == FileData(pid, path, body.content, body.language)
              fresh == RowsOfKey(pid, path) = {}
          IN  /\ memFiles' = IF backend = "mem"
                             THEN MemCreateOrUpdateProjectFile(memFiles, fileData,
                                                               nextId + 1, now)
                             ELSE memFiles
              /\ dbFiles' = IF backend = "db"
                            THEN DbCreateOrUpdateProjectFile(dbFiles, fileData,
                                                             nextId + 1, now)
                            ELSE dbFiles
              /\ nextId' = IF fresh THEN nextId + 1 ELSE nextId
              /\ lastOp' = [op |-> "createOrUpdateProjectFile", n |-> lastOp.n + 1,
                            id |-> pid, path |-> path]
    /\ UNCHANGED <<cfgVars, now, userVars, projects, aiGenerations, diskVars, reqs,
                   lastGitWrite, firstCall, lastCall>>

StoreDeleteProjectFile ==
    /\ CanCall
    /\ \E pid \in {P1, P2}, path \in Paths :
          /\ memFiles' = IF backend = "mem" THEN MemDeleteProjectFile(memFiles, pid, path)
                         ELSE memFiles
          /\ dbFiles' = IF backend = "db" THEN DbDeleteProjectFile(dbFiles, pid, path)
                        ELSE dbFiles
          /\ lastOp' = [op |-> "deleteProjectFile", n |-> lastOp.n + 1, id |-> pid,
                        path |-> path]
    /\ UNCHANGED <<cfgVars, now, nextId, userVars, projects, aiGenerations, diskVars, reqs,
                   lastGitWrite, firstCall, lastCall>>

StoreNext ==
    \/ StoreUpdateProject
    \/ StoreDeleteProject
    \/ StoreCreateOrUpdateProjectFile
    \/ StoreDeleteProjectFile
    \/ Tick

\* Two projects, created in the same tick, the first of u1; no files yet.
StoreInit ==
    /\ InitStore
    /\ maxInFlight = 1
    /\ \E owner \in Users :
          projects = [pid \in {P1, P2} |->
                         IF pid = P1 THEN NewProject("u1")
                         ELSE [NewProject(owner) EXCEPT !.slot = 1]]
    /\ reqs = <<>>
StoreSpec == StoreInit /\ [][StoreNext]_vars

(***************************************************************************)
(* The bridge methods called directly, one call at a time:                 *)
(* syncProjectToWorkspace (materialize) and syncWorkspaceToProject         *)
(* (dematerialize).                                                        *)
(***************************************************************************)
\* Content of a workspace file that fs.readFile cannot read (EACCES).
Unreadable == "<EACCES>"

\* file.content || ''
ContentOrEmpty(c) == IF c \in {Null, Undefined} THEN "" ELSE c

\* syncProjectToWorkspace: mkdir -p of the directory, then every file that
\* getProjectFiles returned is written over the directory tree; nothing is
\* removed from it.
SyncProjectToWorkspace(tree, files) ==
    [path \in (DOMAIN tree) \cup {files[i].path : i \in 1..Len(files)} |->
        IF \E i \in 1..Len(files) : files[i].path = path
        THEN LET last == CHOOSE i \in 1..Len(files) :
                            /\ files[i].path = path
                            /\ \A j \in (i + 1)..Len(files) : files[j].path # path
             IN  ContentOrEmpty(files[last].content)
        ELSE tree[path]]

\* getAllFilesInDirectory: the files of the tree in the order readdir lists them.
GetAllFilesInDirectory(tree) == SelectSeq(DiskOrder, LAMBDA path : path \in DOMAIN tree)

\* The store as one value: both backends' files and the id counter, and
\* whether the call that produced it threw.
StoreNow == [mem |-> memFiles, db |-> dbFiles, nextId |-> nextId, threw |-> FALSE]

StoreRows(st) == IF backend = "mem" THEN Range(st.mem) ELSE st.db

\* createOrUpdateProjectFile of the backend in use, run to its end.
CreateOrUpdateProjectFile(st, fileData, t) ==
    LET fresh == {row \in StoreRows(st) : /\ row.projectId = fileData.projectId
                                          /\ row.path = fileData.path} = {}
    IN  [mem |-> IF backend = "mem"
                 THEN MemCreateOrUpdateProjectFile(st.mem, fileData, st.nextId + 1, t)
                 ELSE st.mem,
         db |-> IF backend = "db"
                THEN DbCreateOrUpdateProjectFile(st.db, fileData, st.nextId + 1, t)
                ELSE st.db,
         nextId |-> IF fresh THEN st.nextId + 1 ELSE st.nextId,
         threw |-> st.threw]

\* The loop of syncWorkspaceToProject over allFiles: .git and node_modules
\* paths are passed over; readFile of a file that cannot be read throws,
\* which ends the loop with the earlier files applied; every other file is
\* upserted with the language of its extension.
RECURSIVE SyncLoop(_, _, _, _, _)
SyncLoop(st, projectId, tree, files, t) ==
    IF files = <<>> THEN st
    ELSE LET path == Head(files)
         IN  IF SkippedBySync(path)
             THEN SyncLoop(st, projectId, tree, Tail(files), t)
             ELSE IF tree[path] = Unreadable
             THEN [st EXCEPT !.threw = TRUE]
             ELSE SyncLoop(
                      CreateOrUpdateProjectFile(st,
                          FileData(projectId, path, tree[path],
                                   GetLanguageFromExtension(ExtName(path))), t),
                      projectId, tree, Tail(files), t)

\* syncWorkspaceToProject on the store st and the workspaces ws: readdir of
\* a missing directory throws.
SyncWorkspaceToProject(st, ws, projectId, t) ==
    IF projectId \notin DOMAIN ws THEN [st EXCEPT !.threw = TRUE]
    ELSE SyncLoop(st, projectId, ws[projectId],
                  GetAllFilesInDirectory(ws[projectId]), t)

\* The file list getProjectFiles returns to a caller: one of the results.
SomeProjectFiles(projectId) == CHOOSE res \in GetProjectFiles(projectId) : TRUE

BridgeMaterialize ==
    /\ CanCall
    /\ \E pid \in {P1} :
          /\ gitWorkspace' = MapSet(gitWorkspace, pid,
                 SyncProjectToWorkspace(WorkspaceOf(pid), SomeProjectFiles(pid)))
          /\ lastOp' = [op |-> "syncProjectToWorkspace", n |-> lastOp.n + 1, id |-> pid,
                        prev |-> lastOp.op,
                        intoEmpty |-> (DOMAIN WorkspaceOf(pid) = {})]
    /\ UNCHANGED <<cfgVars, now, userVars, projects, fileVars, aiGenerations, aiWorkspace,
                   remote, reqs, lastGitWrite, firstCall, lastCall>>

BridgeDematerialize ==
    /\ CanCall
    /\ \E pid \in {P1} :
          LET st == SyncWorkspaceToProject(StoreNow, gitWorkspace, pid, now)
          IN  /\ memFiles' = st.mem
              /\ dbFiles' = st.db
              /\ nextId' = st.nextId
              /\ lastOp' = [op |-> "syncWorkspaceToProject", n |-> lastOp.n + 1,
                            id |-> pid, prev |-> lastOp.op, threw |-> st.threw,
                            afterEmpty |-> (/\ lastOp.op = "syncProjectToWorkspace"
                                            /\ lastOp.intoEmpty),
                            before |-> Untimed(RowsOfProject(pid))]
    /\ UNCHANGED <<cfgVars, now, userVars, projects, aiGenerations, diskVars, reqs,
                   lastGitWrite, firstCall, lastCall>>

BridgeNext ==
    \/ StoreCreateOrUpdateProjectFile
    \/ StoreDeleteProjectFile
    \/ BridgeMaterialize
    \/ BridgeDematerialize
    \/ Tick

\* The workspace directories the bridge calls start from: none; a clone of
\* the repository; a directory in which the first file cannot be read.
InitialWorkspaces ==
    {EmptyMap,
     [pid \in {P1} |-> Checkout(EmptyMap, InitialRemote[RemoteHead])],
     [pid \in {P1} |-> [path \in {"a.js", "b.css"} |->
                           IF path = "a.js" THEN Unreadable ELSE "x"]]}

BridgeInit ==
    /\ backend \in {"mem", "db"}
    /\ now = 1
    /\ nextId = 0
    /\ users = [u \in Users |-> NewUser(EmailOf(u), DefaultCredits, Null)]
    /\ usersByEmail = EmailIndex(users)
    /\ projects = [pid \in {P1, P2} |-> NewProject("u1")]
    /\ memFiles = EmptyMap
    /\ dbFiles = {}
    /\ aiGenerations = {}
    /\ gitWorkspace \in InitialWorkspaces
    /\ aiWorkspace = EmptyMap
    /\ remote = InitialRemote
    /\ lastGitWrite = [kind |-> "none", from |-> "unconnected", to |-> "unconnected"]
    /\ firstCall = EmptyMap
    /\ lastCall = EmptyMap
    /\ lastOp = [op |-> "none", n |-> 0]
    /\ maxInFlight = 1
    /\ reqs = <<>>
BridgeSpec == BridgeInit /\ [][BridgeNext]_vars

(***************************************************************************)
(* DELETE /api/projects/:id                                                *)
(***************************************************************************)
StartDeleteProject(r) ==
    /\ CanStart(r)
    /\ \E u \in Users, pid \in {P1, MissingProject} :
          reqs' = [reqs EXCEPT ![r] = [IdleReq EXCEPT !.kind = "deleteProject",
                       !.pc = "getProject", !.user = u, !.projectId = pid]]
    /\ UNCHANGED <<cfgVars, now, userVars, projects, fileVars, aiGenerations, diskVars,
                   lastGitWrite, callVars>>

DeleteGetProject(r) ==
    /\ reqs[r].kind = "deleteProject" /\ reqs[r].pc = "getProject"
    /\ LET pid == reqs[r].projectId
       IN  reqs' = IF pid \notin DOMAIN projects THEN Respond(r, 404)
                   ELSE IF projects[pid].userId # reqs[r].user THEN Respond(r, 403)
                   ELSE [reqs EXCEPT ![r].pc = "deleteProject"]
    /\ UNCHANGED <<cfgVars, now, userVars, projects, fileVars, aiGenerations, diskVars,
                   lastGitWrite, callVars>>

\* storage.deleteProject(id) and res.json({ message })
DeleteProject(r) ==
    /\ reqs[r].kind = "deleteProject" /\ reqs[r].pc = "deleteProject"
    /\ LET id == reqs[r].projectId
       IN  /\ projects' = [p \in (DOMAIN projects) \ {id} |-> projects[p]]
           /\ memFiles' = IF backend = "mem" THEN MemDeleteProject(memFiles, id)
                          ELSE memFiles
           /\ dbFiles' = IF backend = "db" THEN DbDeleteProject(dbFiles, id) ELSE dbFiles
    /\ reqs' = Respond(r, 200)
    /\ UNCHANGED <<cfgVars, now, nextId, userVars, aiGenerations, diskVars, lastGitWrite,
                   callVars>>

(***************************************************************************)
(* POST /api/create-subscription                                           *)
(***************************************************************************)
StartSubscription(r) ==
    /\ CanStart(r)
    /\ \E u \in Users :
          reqs' = [reqs EXCEPT ![r] = [IdleReq EXCEPT !.kind = "subscription",
                                                      !.pc = "getUser", !.user = u]]
    /\ UNCHANGED <<cfgVars, now, userVars, projects, fileVars, aiGenerations, diskVars,
                   lastGitWrite, callVars>>

\* getUser and the checks that follow it, all outside the try block
SubscriptionGetUser(r) ==
    /\ reqs[r].kind = "subscription" /\ reqs[r].pc = "getUser"
    /\ LET u == reqs[r].user
       IN  reqs' = IF u \notin DOMAIN users THEN Respond(r, 404)
                   ELSE IF users[u].stripeSubscriptionId # Null
                   THEN [reqs EXCEPT ![r].pc = "retrieve"]
                   ELSE IF users[u].email = Null THEN Respond(r, 400)
                   ELSE [reqs EXCEPT ![r].pc = "create"]
    /\ UNCHANGED <<cfgVars, now, userVars, projects, fileVars, aiGenerations, diskVars,
                   lastGitWrite, callVars>>

\* stripe.subscriptions.retrieve, outside the try block: when Stripe fails
\* the rejection leaves the handler and no response is sent.
SubscriptionRetrieve(r) ==
    /\ reqs[r].kind = "subscription" /\ reqs[r].pc = "retrieve"
    /\ \/ reqs' = Respond(r, 200)
       \/ reqs' = Respond(r, 0)
    /\ UNCHANGED <<cfgVars, now, userVars, projects, fileVars, aiGenerations, diskVars,
                   lastGitWrite, callVars>>

\* The try block: customers.create, subscriptions.create,
\* updateUserStripeInfo and res.send; the catch answers 400.
SubscriptionCreate(r) ==
    /\ reqs[r].kind = "subscription" /\ reqs[r].pc = "create"
    /\ \/ LET st == UpdateUser(UserStoreNow, reqs[r].user,
                              UserUpdates("updateUserStripeInfo", "cus", "sub"), now)
          IN  /\ users' = st.users
              /\ usersByEmail' = st.byEmail
              /\ reqs' = Respond(r, IF st.threw THEN 400 ELSE 200)
       \/ /\ reqs' = Respond(r, 400)
          /\ UNCHANGED userVars
    /\ UNCHANGED <<cfgVars, now, projects, fileVars, aiGenerations, diskVars,
                   lastGitWrite, callVars>>

(***************************************************************************)
(* Applying lists of files to a project, one list at a time                *)
(***************************************************************************)
\* GetInitialFiles with the switch on the template left out.
GetInitialFilesOfReact(template) ==
    <<[path |-> "src/App.jsx", content |-> "<App.jsx>", language |-> "javascript"],
      [path |-> "src/App.css", content |-> "<App.css>", language |-> "css"],
      [path |-> "package.json", content |-> "<package.json>", language |-> "json"]>>

\* getInitialFiles(template); the contents stand for the template texts.
GetInitialFiles(template) ==
    IF template = "react"
    THEN <<[path |-> "src/App.jsx", content |-> "<App.jsx>", language |-> "javascript"],
           [path |-> "src/App.css", content |-> "<App.css>", language |-> "css"],
           [path |-> "package.json", content |-> "<package.json>", language |-> "json"]>>
    ELSE <<[path |-> "index.html", content |-> "<index.html>", language |-> "html"]>>

\* The file lists generateCodeWithContext may return: up to MaxFiles
\* entries, each a patch of a file of the template or a new file.
GeneratedEntries ==
    {[path |-> "src/App.jsx", content |-> "x", language |-> "javascript"],
     [path |-> "src/App.jsx", content |-> "y", language |-> "javascript"],
     [path |-> "a.js", content |-> "x", language |-> "javascript"]}
GeneratedLists ==
    UNION {[1..n -> GeneratedEntries] : n \in 0..MaxFiles}

\* ApplyLoop taking the entries from the last to the first.
RECURSIVE ApplyLoopLastFirst(_, _, _, _)
ApplyLoopLastFirst(st, projectId, files, t) ==
    IF files = <<>> THEN st
    ELSE LET file == Head(files)
         IN  CreateOrUpdateProjectFile(
                 ApplyLoopLastFirst(st, projectId, Tail(files), t),
                 FileData(projectId, file.path, file.content, file.language), t)

\* for (const file of files) await storage.createOrUpdateProjectFile({
\* projectId, path, content, language })
RECURSIVE ApplyLoop(_, _, _, _)
ApplyLoop(st, projectId, files, t) ==
    IF files = <<>> THEN st
    ELSE LET file == Head(files)
         IN  ApplyLoop(CreateOrUpdateProjectFile(st,
                           FileData(projectId, file.path, file.content, file.language),
                           t),
                       projectId, Tail(files), t)

\* The loop of generate-with-context over result.files, run to its end.
ApplyGeneratedFiles ==
    /\ lastOp.n < MaxApplies
    /\ \E pid \in {P1}, files \in GeneratedLists :
          LET st == ApplyLoop(StoreNow, pid, files, now)
          IN  /\ memFiles' = st.mem
              /\ dbFiles' = st.db
              /\ nextId' = st.nextId
              /\ lastOp' = [op |-> "applyGeneratedFiles", n |-> lastOp.n + 1,
                            id |-> pid, files |-> files, before |-> FileRows]
    /\ UNCHANGED <<cfgVars, now, userVars, projects, aiGenerations, diskVars, reqs,
                   lastGitWrite, firstCall, lastCall>>

ApplyNext ==
    \/ ApplyGeneratedFiles
    \/ Tick

\* POST /api/projects done twice: p1 from the react or the default template,
\* p2 from the default template.
ApplyInit ==
    /\ backend \in {"mem", "db"}
    /\ now = 1
    /\ users = [u \in Users |-> NewUser(EmailOf(u), DefaultCredits, Null)]
    /\ usersByEmail = EmailIndex(users)
    /\ projects = [pid \in {P1, P2} |-> NewProject("u1")]
    /\ \E template \in {"react", "static"} :
          LET empty == [mem |-> EmptyMap, db |-> {}, nextId |-> 0, threw |-> FALSE]
              st == ApplyLoop(ApplyLoop(empty, P1, GetInitialFiles(template), 1),
                              P2, GetInitialFiles("static"), 1)
          IN  /\ memFiles = st.mem
              /\ dbFiles = st.db
              /\ nextId = st.nextId
    /\ aiGenerations = {}
    /\ gitWorkspace = EmptyMap
    /\ aiWorkspace = EmptyMap
    /\ remote = InitialRemote
    /\ lastGitWrite = [kind |-> "none", from |-> "unconnected", to |-> "unconnected"]
    /\ firstCall = EmptyMap
    /\ lastCall = EmptyMap
    /\ lastOp = [op |-> "none", n |-> 0]
    /\ maxInFlight = 1
    /\ reqs = <<>>
ApplySpec == ApplyInit /\ [][ApplyNext]_vars

\* The GitHub handlers on a project that was connected with one of the
\* branches and cloned.
GitBranchInit ==
    /\ backend \in {"mem", "db"}
    /\ now = 1
    /\ nextId = 0
    /\ users = [u \in Users |-> NewUser(EmailOf(u), DefaultCredits, "tok")]
    /\ usersByEmail = EmailIndex(users)
    /\ \E b \in Branches :
          projects = [pid \in {P1} |-> [ConnectedProject("u1") EXCEPT !.githubBranch = b]]
    /\ memFiles = EmptyMap
    /\ dbFiles = {}
    /\ aiGenerations = {}
    /\ gitWorkspace = [pid \in {P1} |-> Checkout(EmptyMap, InitialRemote[RemoteHead])]
    /\ aiWorkspace = EmptyMap
    /\ remote = InitialRemote
    /\ lastGitWrite = [kind |-> "none", from |-> "unconnected", to |-> "unconnected"]
    /\ firstCall = EmptyMap
    /\ lastCall = EmptyMap
    /\ lastOp = [op |-> "none", n |-> 0]
    /\ maxInFlight = 2
    /\ reqs = [r \in 1..MaxGitRequests |-> IdleReq]
GitBranchSpec == GitBranchInit /\ [][GitNext]_vars

\* The GitHub handlers together with the deletion of the project and the
\* subscription route.
FaultNext ==
    \/ GitNext
    \/ \E r \in DOMAIN reqs : StartDeleteProject(r)
    \/ \E r \in DOMAIN reqs : DeleteGetProject(r)
    \/ \E r \in DOMAIN reqs : DeleteProject(r)
    \/ \E r \in DOMAIN reqs : StartSubscription(r)
    \/ \E r \in DOMAIN reqs : SubscriptionGetUser(r)
    \/ \E r \in DOMAIN reqs : SubscriptionRetrieve(r)
    \/ \E r \in DOMAIN reqs : SubscriptionCreate(r)

FaultInit ==
    /\ InitStore
    /\ maxInFlight = 2
    /\ projects = [pid \in {P1} |-> ConnectedProject("u1")]
    /\ reqs = [r \in 1..MaxGitRequests |-> IdleReq]
FaultSpec == FaultInit /\ [][FaultNext]_vars

(***************************************************************************)
(* The user methods of the store called directly, one call at a time.      *)
(***************************************************************************)
MissingUser == "u0"            \* an id that names no user

UserUpdateMethods == {"updateUserCredits", "updateUserStripeInfo", "updateUserGitHubInfo"}

\* The arguments the direct calls pass after the id.
UserArguments(method) ==
    CASE method = "updateUserCredits" -> {<<0, Undefined>>, <<5, Undefined>>}
      [] method = "updateUserStripeInfo" -> {<<"cus", "sub">>, <<"cus", Undefined>>}
      [] method = "updateUserGitHubInfo" -> {<<"tok2", "gh">>}

StoreUpdateUser ==
    /\ CanCall
    /\ \E method \in UserUpdateMethods, userId \in Users \cup {MissingUser} :
          \E args \in UserArguments(method) :
             LET updates == UserUpdates(method, args[1], args[2])
                 st == UpdateUser(UserStoreNow, userId, updates, now)
             IN  /\ users' = st.users
                 /\ usersByEmail' = st.byEmail
                 /\ lastOp' = [op |-> method, n |-> lastOp.n + 1, id |-> userId,
                               fields |-> DOMAIN updates, threw |-> st.threw,
                               before |-> users, beforeIndex |-> usersByEmail]
    /\ UNCHANGED <<cfgVars, now, projects, fileVars, aiGenerations, diskVars, reqs,
                   lastGitWrite, firstCall, lastCall>>

UserNext ==
    \/ StoreUpdateUser
    \/ Tick

UserInit ==
    /\ InitStore
    /\ maxInFlight = 1
    /\ projects = EmptyMap
    /\ reqs = <<>>
UserSpec == UserInit /\ [][UserNext]_vars

(***************************************************************************)
(* Both backends given the same calls of the project-file methods.         *)
(***************************************************************************)
\* What a caller sees of a list of rows: path, content and language tag.
Shown(seq) == [i \in DOMAIN seq |-> <<seq[i].path, seq[i].content, seq[i].language>>]

PairCreateOrUpdateProjectFile ==
    /\ CanCall
    /\ \E pid \in {P1}, path \in Paths, content \in {"x", Undefined},
          language \in {"css", Undefined} :
          LET fileData == FileData(pid, path, content, language)
          IN  /\ memFiles' = MemCreateOrUpdateProjectFile(memFiles, fileData,
                                                          nextId + 1, now)
              /\ dbFiles' = DbCreateOrUpdateProjectFile(dbFiles, fileData,
                                                        nextId + 1, now)
              /\ nextId' = nextId + 1
              /\ lastOp' = [op |-> "createOrUpdateProjectFile", n |-> lastOp.n + 1,
                            id |-> pid, path |-> path]
    /\ UNCHANGED <<cfgVars, now, userVars, projects, aiGenerations, diskVars, reqs,
                   lastGitWrite, firstCall, lastCall>>

PairDeleteProjectFile ==
    /\ CanCall
    /\ \E pid \in {P1}, path \in Paths :
          /\ memFiles' = MemDeleteProjectFile(memFiles, pid, path)
          /\ dbFiles' = DbDeleteProjectFile(dbFiles, pid, path)
          /\ lastOp' = [op |-> "deleteProjectFile", n |-> lastOp.n + 1, id |-> pid,
                        path |-> path]
    /\ UNCHANGED <<cfgVars, now, nextId, userVars, projects, aiGenerations, diskVars,
                   reqs, lastGitWrite, firstCall, lastCall>>

PairNext ==
    \/ PairCreateOrUpdateProjectFile
    \/ PairDeleteProjectFile
    \/ Tick

\* A MemStorage and a DatabaseStorage, both empty.
PairInit ==
    /\ InitStore
    /\ maxInFlight = 1
    /\ projects = [pid \in {P1} |-> NewProject("u1")]
    /\ reqs = <<>>
PairSpec == PairInit /\ [][PairNext]_vars

(***************************************************************************)
(* POST /api/auth/register                                                 *)
(***************************************************************************)
MaxRegistrations == 2          \* registration requests issued in one behaviour

\* Emails the registrations ask for: one that is taken and one that is free.
RegisterEmails == {"a@x", "c@x"}

\* The ids generateId() hands to new users, in the order of their creation.
NewUserIds == <<"n1", "n2", "n3", "n4">>
FreshUserId(us) ==
    NewUserIds[CHOOSE i \in DOMAIN NewUserIds :
                   /\ NewUserIds[i] \notin DOMAIN us
                   /\ \A j \in 1..(i - 1) : NewUserIds[j] \in DOMAIN us]

StartRegister(r) ==
    /\ CanStart(r)
    /\ \E email \in RegisterEmails :
          reqs' = [reqs EXCEPT ![r] = [IdleReq EXCEPT !.kind = "register",
                                          !.pc = "getUserByEmail", !.email = email]]
    /\ UNCHANGED <<cfgVars, now, userVars, projects, fileVars, aiGenerations, diskVars,
                   lastGitWrite, callVars>>

\* storage.getUserByEmail(email) and the check of its result; the task then
\* awaits bcrypt.hash.
RegisterGetUserByEmail(r) ==
    /\ reqs[r].kind = "register" /\ reqs[r].pc = "getUserByEmail"
    /\ reqs' = IF GetUserByEmail(UserStoreNow, reqs[r].email) THEN Respond(r, 400)
               ELSE [reqs EXCEPT ![r].pc = "createUser"]
    /\ UNCHANGED <<cfgVars, now, userVars, projects, fileVars, aiGenerations, diskVars,
                   lastGitWrite, callVars>>

\* bcrypt.hash has resolved: storage.createUser({ email, ..., credits: 1000 })
\* and the response; a failure of createUser is answered by the catch block.
RegisterCreateUser(r) ==
    /\ reqs[r].kind = "register" /\ reqs[r].pc = "createUser"
    /\ LET user == [NewUser(reqs[r].email, DefaultCredits, Null) EXCEPT !.updatedAt = now]
           id == FreshUserId(users)
           st == IF backend = "mem" THEN MemCreateUser(UserStoreNow, id, user)
                 ELSE DbCreateUser(UserStoreNow, id, user)
       IN  /\ users' = st.users
           /\ usersByEmail' = st.byEmail
           /\ reqs' = Respond(r, IF st.threw THEN 500 ELSE 200)
    /\ UNCHANGED <<cfgVars, now, projects, fileVars, aiGenerations, diskVars,
                   lastGitWrite, callVars>>

RegisterNext ==
    \/ \E r \in DOMAIN reqs : StartRegister(r)
    \/ \E r \in DOMAIN reqs : RegisterGetUserByEmail(r)
    \/ \E r \in DOMAIN reqs : RegisterCreateUser(r)
    \/ Tick

RegisterInit ==
    /\ InitStore
    /\ maxInFlight = 2
    /\ projects = EmptyMap
    /\ reqs = [r \in 1..MaxRegistrations |-> IdleReq]
RegisterSpec == RegisterInit /\ [][RegisterNext]_vars

(***************************************************************************)
(* POST /api/projects                                                      *)
(***************************************************************************)
MaxCreates == 2                \* project creations issued in one behaviour

\* The ids generateId() hands to new projects, in the order of their creation.
NewProjectIds == <<"p3", "p4", "p5", "p6">>
FreshProjectId(projs) ==
    NewProjectIds[CHOOSE i \in DOMAIN NewProjectIds :
                      /\ NewProjectIds[i] \notin DOMAIN projs
                      /\ \A j \in 1..(i - 1) : NewProjectIds[j] \in DOMAIN projs]

\* MemStorage.createProject: the row built from projectData, with the
\* defaults of the fields left out.
MemCreateProject(projs, projectData, t) ==
    [NewProject(projectData.userId) EXCEPT
         !.template = OrDefault(projectData.template, "react"),
         !.githubBranch = OrDefault(projectData.githubBranch, DefaultBranch),
         !.slot = Cardinality(DOMAIN projs),
         !.updatedAt = t]

\* DatabaseStorage.createProject: the insert, with the column defaults of
\* the projects table for the fields left out.
DbCreateProject(projs, projectData, t) == MemCreateProject(projs, projectData, t)

\* The bodies of the creation requests: the fields left out are Undefined.
ProjectBodies ==
    {[template |-> "react", githubBranch |-> Undefined],
     [template |-> "static", githubBranch |-> "dev"],
     [template |-> Undefined, githubBranch |-> Undefined]}

\* insertProjectSchema.parse({ ...req.body, userId }), storage.createProject
\* and getInitialFiles(project.template || 'react')
StartCreateProject(r) ==
    /\ CanStart(r)
    /\ \E u \in {"u1"}, body \in ProjectBodies :
          LET projectData == [userId |-> u, template |-> body.template,
                              githubBranch |-> body.githubBranch]
              branch == body.githubBranch
              id == FreshProjectId(projects)
              project == IF backend = "mem" THEN MemCreateProject(projects, projectData, now)
                         ELSE DbCreateProject(projects, projectData, now)
          IN  /\ projects' = MapSet(projects, id, project)
              /\ reqs' = [reqs EXCEPT ![r] = [IdleReq EXCEPT !.kind = "createProject",
                              !.pc = "initialFiles", !.user = u, !.projectId = id,
                              !.branch = branch,
                              !.files = GetInitialFiles(project.template)]]
    /\ UNCHANGED <<cfgVars, now, userVars, fileVars, aiGenerations, diskVars,
                   lastGitWrite, callVars>>

\* One turn of the loop over initialFiles; res.json(project) after the last
\* (the id of the project and the branch the request supplied are kept).
CreateInitialFile(r) ==
    /\ reqs[r].kind = "createProject" /\ reqs[r].pc = "initialFiles"
    /\ IF reqs[r].files = <<>>
       THEN /\ reqs' = [Respond(r, 200) EXCEPT ![r].projectId = reqs[r].projectId,
                                               ![r].branch = reqs[r].branch]
            /\ UNCHANGED <<fileVars, callVars>>
       ELSE LET file == Head(reqs[r].files)
            IN  CallCreateOrUpdateProjectFile(r,
                    [reqs[r] EXCEPT !.files = Tail(@)],
                    FileData(reqs[r].projectId, file.path, file.content, file.language),
                    "initialFiles")
    /\ UNCHANGED <<cfgVars, now, userVars, projects, aiGenerations, diskVars,
                   lastGitWrite>>

CreateNext ==
    \/ \E r \in DOMAIN reqs : StartCreateProject(r)
    \/ \E r \in DOMAIN reqs : CreateInitialFile(r)
    \/ \E r \in DOMAIN reqs : UpsertLookup(r)
    \/ \E r \in DOMAIN reqs : UpsertWrite(r)
    \/ Tick

CreateInit ==
    /\ InitStore
    /\ maxInFlight = 2
    /\ projects = [pid \in {P1} |-> NewProject("u1")]
    /\ reqs = [r \in 1..MaxCreates |-> IdleReq]
CreateSpec == CreateInit /\ [][CreateNext]_vars

(***************************************************************************)
(* Push requests of the owner on one project whose files are being edited. *)
(***************************************************************************)
StartPush(r) ==
    /\ CanStart(r)
    /\ reqs' = [reqs EXCEPT ![r] = [IdleReq EXCEPT !.kind = "push",
                    !.pc = "getProject", !.user = "u1", !.projectId = P1]]
    /\ UNCHANGED <<cfgVars, now, userVars, projects, fileVars, aiGenerations, diskVars,
                   lastGitWrite, callVars>>

PushStep(r) ==
    \/ SyncGetProject(r)
    \/ SyncGetUser(r)
    \/ SyncSetSyncing(r)
    \/ PushGetProjectFiles(r)
    \/ PushWriteFile(r)
    \/ PushToRepository(r)
    \/ SyncSetConnected(r)
    \/ SyncRespondOk(r)
    \/ SyncCatch(r)
    \/ SyncRespondFail(r)

\* The owner saves a file of the project with new content.
EditFile ==
    /\ CanCall
    /\ \E path \in Paths :
          LET st == CreateOrUpdateProjectFile(StoreNow,
                        FileData(P1, path, "y", Undefined), now)
          IN  /\ memFiles' = st.mem
              /\ dbFiles' = st.db
              /\ nextId' = st.nextId
              /\ lastOp' = [op |-> "createOrUpdateProjectFile", n |-> lastOp.n + 1,
                            id |-> P1, path |-> path]
    /\ UNCHANGED <<cfgVars, now, userVars, projects, aiGenerations, diskVars, reqs,
                   lastGitWrite, firstCall, lastCall>>

RaceNext ==
    \/ \E r \in DOMAIN reqs : StartPush(r)
    \/ \E r \in DOMAIN reqs : PushStep(r)
    \/ EditFile

\* A connected project that was cloned, with two stored files of content "x".
RaceInit ==
    /\ backend \in {"mem", "db"}
    /\ now = 1
    /\ users = [u \in Users |-> NewUser(EmailOf(u), DefaultCredits, "tok")]
    /\ usersByEmail = EmailIndex(users)
    /\ projects = [pid \in {P1} |-> ConnectedProject("u1")]
    /\ LET empty == [mem |-> EmptyMap, db |-> {}, nextId |-> 0, threw |-> FALSE]
           st == ApplyLoop(empty, P1,
                     <<[path |-> "a.js", content |-> "x", language |-> "javascript"],
                       [path |-> "b.css", content |-> "x", language |-> "css"]>>, 1)
       IN  /\ memFiles = st.mem
           /\ dbFiles = st.db
           /\ nextId = st.nextId
    /\ aiGenerations = {}
    /\ gitWorkspace = [pid \in {P1} |-> Checkout(EmptyMap, InitialRemote[RemoteHead])]
    /\ aiWorkspace = EmptyMap
    /\ remote = InitialRemote
    /\ lastGitWrite = [kind |-> "none", from |-> "unconnected", to |-> "unconnected"]
    /\ firstCall = EmptyMap
    /\ lastCall = EmptyMap
    /\ lastOp = [op |-> "none", n |-> 0]
    /\ maxInFlight = 2
    /\ reqs = [r \in 1..MaxGitRequests |-> IdleReq]
RaceSpec == RaceInit /\ [][RaceNext]_vars

(***************************************************************************)
(* The two directory walks, applied to one file of a workspace.            *)
(***************************************************************************)
MaxDepth == 3                  \* names in the path of the file, its own included

DirNames == {".git", ".github", "node_modules", "dist", "sub"}
FileNames == {".gitignore", "ci.yml", "a.js", "logo.png", "config"}

\* The paths of a file at depth n: n - 1 directories and the file.
FilePaths(n) ==
    {names \in [1..n -> DirNames \cup FileNames] :
        /\ names[n] \in FileNames
        /\ \A i \in 1..(n - 1) : names[i] \in DirNames}

\* scanDirectory: a directory named in the list is not entered; a file is
\* read when its extension is in relevantExtensions or it has none.
RelevantExtensions == {".js", ".css", ".yml"}
ScannedByContext(names) ==
    /\ \A i \in 1..(Len(names) - 1) :
          names[i] \notin {"node_modules", ".git", "dist", "build", ".next"}
    /\ \/ ExtName(names[Len(names)]) \in RelevantExtensions
       \/ ExtName(names[Len(names)]) = ""

\* Both walks meet the file whose path lastOp holds.
Walk ==
    /\ lastOp.op = "none"
    /\ lastOp' = [op |-> "walk", n |-> 1, path |-> lastOp.path,
                  imported |-> ~SkippedByReimport(lastOp.path),
                  scanned |-> ScannedByContext(lastOp.path)]
    /\ UNCHANGED <<cfgVars, now, nextId, userVars, projects, memFiles, dbFiles,
                   aiGenerations, diskVars, reqs, lastGitWrite, firstCall, lastCall>>

WalkNext == Walk

WalkInit ==
    /\ backend \in {"mem", "db"}
    /\ now = 1
    /\ nextId = 0
    /\ users = [u \in Users |-> NewUser(EmailOf(u), DefaultCredits, Null)]
    /\ usersByEmail = EmailIndex(users)
    /\ projects = [pid \in {P1} |-> NewProject("u1")]
    /\ memFiles = EmptyMap
    /\ dbFiles = {}
    /\ aiGenerations = {}
    /\ gitWorkspace = EmptyMap
    /\ aiWorkspace = EmptyMap
    /\ remote = InitialRemote
    /\ lastGitWrite = [kind |-> "none", from |-> "unconnected", to |-> "unconnected"]
    /\ firstCall = EmptyMap
    /\ lastCall = EmptyMap
    /\ \E names \in UNION {FilePaths(n) : n \in 1..MaxDepth} :
          lastOp = [op |-> "none", n |-> 0, path |-> names]
    /\ maxInFlight = 1
    /\ reqs = <<>>
WalkSpec == WalkInit /\ [][WalkNext]_vars

(***************************************************************************)
(* The routes that name a project, called by its owner and by another      *)
(* user: PUT files, analyze-project and generate-with-context.             *)
(***************************************************************************)
\* POST /api/ai/analyze-project and /api/ai/generate-with-context arrive:
\* projectId is read from req.body, of a project or of none.
StartAiOnProject(r) ==
    /\ CanStart(r)
    /\ \E k \in {"analyze", "generateWithContext"}, u \in Users,
          pid \in {P1, MissingProject} :
          reqs' = [reqs EXCEPT ![r] = [IdleReq EXCEPT !.kind = k, !.pc = "getUser",
                                                      !.user = u, !.projectId = pid]]
    /\ UNCHANGED <<cfgVars, now, userVars, projects, fileVars, aiGenerations, diskVars,
                   lastGitWrite, callVars>>

OwnerNext ==
    \/ \E r \in DOMAIN reqs : StartAiOnProject(r)
    \/ \E r \in DOMAIN reqs : AiGetUser(r)
    \/ \E r \in DOMAIN reqs : AiCreateWorkspace(r)
    \/ \E r \in DOMAIN reqs : AiCallModel(r)
    \/ \E r \in DOMAIN reqs : AiSaveFile(r)
    \/ \E r \in DOMAIN reqs : UpsertLookup(r)
    \/ \E r \in DOMAIN reqs : UpsertWrite(r)
    \/ \E r \in DOMAIN reqs : AiDeduct(r)
    \/ \E r \in DOMAIN reqs : AiRecord(r)
    \/ \E r \in DOMAIN reqs : AiRespond(r)
    \/ \E r \in DOMAIN reqs : StartPutFile(r)
    \/ \E r \in DOMAIN reqs : PutFileGetProject(r)
    \/ \E r \in DOMAIN reqs : PutFileRespond(r)

\* P1 belongs to u1 and holds a.js; u1 and u2 both hold the credits of a new
\* user.
OwnedProject ==
    /\ now = 1
    /\ projects = [pid \in {P1} |-> NewProject("u1")]
    /\ LET empty == [mem |-> EmptyMap, db |-> {}, nextId |-> 0, threw |-> FALSE]
           st == ApplyLoop(empty, P1,
                     <<[path |-> "a.js", content |-> "x", language |-> "javascript"]>>, 1)
       IN  /\ memFiles = st.mem
           /\ dbFiles = st.db
           /\ nextId = st.nextId
    /\ users = [u \in Users |-> NewUser(EmailOf(u), DefaultCredits, Null)]
    /\ usersByEmail = EmailIndex(users)
    /\ aiGenerations = {}
    /\ gitWorkspace = EmptyMap
    /\ aiWorkspace = EmptyMap
    /\ remote = InitialRemote
    /\ lastGitWrite = [kind |-> "none", from |-> "unconnected", to |-> "unconnected"]
    /\ firstCall = EmptyMap
    /\ lastCall = EmptyMap
    /\ lastOp = [op |-> "none", n |-> 0]
    /\ reqs = [r \in 1..MaxAiRequests |-> IdleReq]

\* One request at a time.
OwnerInit ==
    /\ backend \in {"mem", "db"}
    /\ maxInFlight = 1
    /\ OwnedProject
OwnerSpec == OwnerInit /\ [][OwnerNext]_vars

(***************************************************************************)
(* MemStorage: DELETE /api/projects/:id next to the requests that write    *)
(* files, two requests at a time.                                          *)
(***************************************************************************)
OrphanNext ==
    \/ \E r \in DOMAIN reqs : StartDeleteProject(r)
    \/ \E r \in DOMAIN reqs : DeleteGetProject(r)
    \/ \E r \in DOMAIN reqs : DeleteProject(r)
    \/ \E r \in DOMAIN reqs : StartPutFile(r)
    \/ \E r \in DOMAIN reqs : PutFileGetProject(r)
    \/ \E r \in DOMAIN reqs : PutFileRespond(r)
    \/ \E r \in DOMAIN reqs : StartAiOnProject(r)
    \/ \E r \in DOMAIN reqs : AiGetUser(r)
    \/ \E r \in DOMAIN reqs : AiCreateWorkspace(r)
    \/ \E r \in DOMAIN reqs : AiCallModel(r)
    \/ \E r \in DOMAIN reqs : AiSaveFile(r)
    \/ \E r \in DOMAIN reqs : AiDeduct(r)
    \/ \E r \in DOMAIN reqs : AiRecord(r)
    \/ \E r \in DOMAIN reqs : AiRespond(r)

OrphanInit ==
    /\ backend = "mem"
    /\ maxInFlight = 2
    /\ OwnedProject
OrphanSpec == OrphanInit /\ [][OrphanNext]_vars

(***************************************************************************)
(* MemStorage: the methods that write the projectFiles map, called one     *)
(* after another.                                                          *)
(***************************************************************************)
\* MemStorage.getProjectFile: this.projectFiles.get(key), or no row
MemGetProjectFile(files, projectId, path) ==
    IF Key(projectId, path) \in DOMAIN files THEN {files[Key(projectId, path)]} ELSE {}

\* MemStorage.createProjectFile: a row with a new id, set under
\* projectId:path whatever the map holds there.
MemCreateProjectFile(files, fileData, freshId, t) ==
    MapSet(files, Key(fileData.projectId, fileData.path),
           [id |-> freshId,
            projectId |-> fileData.projectId,
            path |-> fileData.path,
            content |-> OrDefault(fileData.content, DefaultContent),
            language |-> OrDefault(fileData.language, DefaultLanguage),
            createdAt |-> t,
            updatedAt |-> t])

\* The entry updateProjectFile finds: [key, file] with file.id === id.
EntryOfId(files, id) == {key \in DOMAIN files : files[key].id = id}

\* MemStorage.updateProjectFile for an id that is found:
\* { ...file, ...fileData, updatedAt: new Date() }, set under the key found.
MemUpdateProjectFile(files, id, fileData, t) ==
    LET key == CHOOSE k \in EntryOfId(files, id) : TRUE
        file == files[key]
    IN  MapSet(files, key,
               [f \in DOMAIN file |->
                   IF f = "updatedAt" THEN t
                   ELSE IF f \in DOMAIN fileData THEN fileData[f] ELSE file[f]])

\* Partial<InsertProjectFile> values of the calls.
FilePatches == {[content |-> "y"], [path |-> "b.css"], [projectId |-> P2]}

StoreCreateProjectFile ==
    /\ CanCall
    /\ backend = "mem"
    /\ \E pid \in {P1, P2}, path \in Paths :
          /\ memFiles' = MemCreateProjectFile(memFiles,
                             FileData(pid, path, "x", Undefined), nextId + 1, now)
          /\ nextId' = nextId + 1
          /\ lastOp' = [op |-> "createProjectFile", n |-> lastOp.n + 1, id |-> pid,
                        path |-> path]
    /\ UNCHANGED <<cfgVars, now, userVars, projects, dbFiles, aiGenerations, diskVars,
                   reqs, lastGitWrite, firstCall, lastCall>>

StoreUpdateProjectFile ==
    /\ CanCall
    /\ backend = "mem"
    /\ \E id \in 1..(nextId + 1), fileData \in FilePatches :
          /\ memFiles' = IF EntryOfId(memFiles, id) = {}
                         THEN memFiles                \* "Project file not found"
                         ELSE MemUpdateProjectFile(memFiles, id, fileData, now)
          /\ lastOp' = [op |-> "updateProjectFile", n |-> lastOp.n + 1, id |-> id,
                        threw |-> (EntryOfId(memFiles, id) = {})]
    /\ UNCHANGED <<cfgVars, now, nextId, userVars, projects, dbFiles, aiGenerations,
                   diskVars, reqs, lastGitWrite, firstCall, lastCall>>

MapNext ==
    \/ StoreCreateOrUpdateProjectFile
    \/ StoreCreateProjectFile
    \/ StoreUpdateProjectFile
    \/ StoreDeleteProjectFile
    \/ StoreDeleteProject

MapInit ==
    /\ StoreInit
    /\ backend = "mem"
MapSpec == MapInit /\ [][MapNext]_vars

(***************************************************************************)
(* C1: upserts of one key, one after another, on an empty store.           *)
(***************************************************************************)
AllKeys == {Key(P1, path) : path \in Paths}

\* C1: after any sequence of createOrUpdateProjectFile calls issued one after
\* another on an empty store, every key that was written has exactly one row,
\* whose id and createdAt are those the first call of the key returned and
\* whose content and language are those the latest call of the key carried;
\* a key that was never written has no row.
C1_IdentityStable ==
    \A key \in AllKeys :
        LET rows == RowsOfKey(key[1], key[2])
        IN  IF key \notin DOMAIN firstCall
            THEN rows = {}
            ELSE /\ Cardinality(rows) = 1
                 /\ \A row \in rows :
                      /\ row.id = firstCall[key].id
                      /\ row.createdAt = firstCall[key].createdAt
                      /\ lastCall[key].content # Undefined
                            => row.content = lastCall[key].content
                      /\ lastCall[key].language # Undefined
                            => row.language = lastCall[key].language

\* A key written at least twice, at different times and with different
\* contents, while the other key has been written too.
C1_Witness ==
    /\ DOMAIN firstCall = AllKeys
    /\ \E row \in FileRows :
         /\ row.updatedAt > row.createdAt
         /\ row.id = 1
         /\ row.content = "y"
         /\ lastCall[Key(row.projectId, row.path)].content = "y"

(***************************************************************************)
(* C2: concurrent upserts of one key.                                      *)
(***************************************************************************)
\* C2: in every reachable state there is at most one ProjectFile row per
\* (projectId, path), also while PUT files requests on the same key run
\* concurrently.
C2_AtMostOneRowPerKey ==
    \A key \in AllKeys : Cardinality(RowsOfKey(key[1], key[2])) <= 1

(***************************************************************************)
(* C3 - C7: the gitStatus state machine.                                   *)
(***************************************************************************)
\* C3: in every reachable state a project whose gitStatus is "connected" has
\* a githubRepoUrl that is not null.
C3_ConnectedHasRepoUrl ==
    \A pid \in DOMAIN projects :
        projects[pid].gitStatus = "connected" => projects[pid].githubRepoUrl # Null

SpecifiedEdges ==
    {<<"connect", "unconnected", "connected">>,
     <<"disconnect", "connected", "unconnected">>,
     <<"disconnect", "error", "unconnected">>}
    \cup {<<k, "connected", "syncing">> : k \in SyncKinds}
    \cup {<<k, "error", "syncing">> : k \in SyncKinds}
    \cup {<<k, "syncing", "connected">> : k \in SyncKinds}
    \cup {<<k, "syncing", "error">> : k \in SyncKinds}

\* C4: every change of gitStatus made by a GitHub handler is an edge of the
\* specified state machine, made by the handler the edge belongs to.
C4_OnlySpecifiedEdges ==
    lastGitWrite.from # lastGitWrite.to
        => <<lastGitWrite.kind, lastGitWrite.from, lastGitWrite.to>> \in SpecifiedEdges

GitOrFsPcs == {"cloneRepository", "pullFromRepository", "walk", "syncFile", "lookup",
               "write", "getProjectFiles", "writeFile", "pushToRepository"}

WroteSyncing == [status |-> "syncing", sync |-> FALSE]

\* C5: a clone, push or pull that has not passed its precondition checks has
\* issued no status write; one that is at or past its first git or filesystem
\* step has issued exactly one, "syncing"; when it sends the success response
\* its writes were "syncing" and then "connected" with lastSyncAt; when it
\* sends the failure response its writes were "syncing" and then "error", and
\* never "connected".
C5_SyncWrites ==
    \A r \in DOMAIN reqs :
        reqs[r].kind \in SyncKinds =>
            /\ reqs[r].pc \in {"getProject", "getUser", "setSyncing"}
                  => reqs[r].writes = <<>>
            /\ reqs[r].pc \in GitOrFsPcs \cup {"setConnected", "catch"}
                  => reqs[r].writes = <<WroteSyncing>>
            /\ reqs[r].pc = "respondOk"
                  => reqs[r].writes = <<WroteSyncing,
                                        [status |-> "connected", sync |-> TRUE]>>
            /\ reqs[r].pc = "respondFail"
                  => reqs[r].writes = <<WroteSyncing,
                                        [status |-> "error", sync |-> FALSE]>>

\* A sync request is about to send the failure response after another has
\* answered with success.
C5_Witness ==
    \E r, q \in DOMAIN reqs :
        /\ reqs[r].kind \in SyncKinds /\ reqs[r].pc = "respondFail"
        /\ reqs[q].kind \in SyncKinds /\ reqs[q].status = 200

SyncInFlight ==
    \E r \in DOMAIN reqs : reqs[r].kind \in SyncKinds /\ reqs[r].pc \notin {"idle", "done"}

\* C6: when every call of an issued request returns, a project whose
\* gitStatus is "syncing" eventually has gitStatus "connected" or "error", and
\* gitStatus is never "syncing" while no clone, push or pull is in flight.
C6_SyncingResolves ==
    /\ (projects[P1].gitStatus = "syncing")
          ~> (projects[P1].gitStatus \in {"connected", "error"})
    /\ [](~SyncInFlight => projects[P1].gitStatus # "syncing")

\* A push whose git step has failed while the project is "syncing".
C6_Witness ==
    /\ projects[P1].gitStatus = "syncing"
    /\ \E r \in DOMAIN reqs : /\ reqs[r].kind = "push" /\ reqs[r].pc = "catch"
                          /\ P1 \in DOMAIN gitWorkspace

\* C7: a successful disconnect sets githubRepoUrl to null, githubBranch to
\* "main", githubAccessToken to null and gitStatus to "unconnected", leaves
\* the ProjectFile rows and the workspace directories as they were, and is
\* performed only from gitStatus "connected" or "error".
C7_Disconnect ==
    [][\A r \in DOMAIN reqs :
          (/\ reqs[r].kind = "disconnect" /\ reqs[r].pc = "disconnectUpdate"
           /\ reqs'[r].status = 200)
          => LET pid == reqs[r].projectId
             IN  /\ projects'[pid].githubRepoUrl = Null
                 /\ projects'[pid].githubBranch = "main"
                 /\ projects'[pid].githubAccessToken = Null
                 /\ projects'[pid].gitStatus = "unconnected"
                 /\ memFiles' = memFiles /\ dbFiles' = dbFiles
                 /\ gitWorkspace' = gitWorkspace /\ aiWorkspace' = aiWorkspace
                 /\ projects[pid].gitStatus \in {"connected", "error"}]_vars

(***************************************************************************)
(* C8 - C10: credits.                                                      *)
(***************************************************************************)
PastModelCall == {"saveFiles", "lookup", "write", "deduct", "record", "aiRespond"}

\* C8: an AI request of a user whose credits are below what the request is
\* charged (creditsUsed) is rejected before the model is called: no request
\* gets past the model call, to its store writes, with a balance below its
\* charge.
C8_RejectedBelowCost ==
    \A r \in DOMAIN reqs :
        (reqs[r].kind \in AiKinds /\ reqs[r].pc \in PastModelCall)
            => reqs[r].credits >= reqs[r].creditsUsed

\* C9: the credits of every user are at least 0 in every reachable state.
C9_CreditsNonNegative == \A u \in DOMAIN users : users[u].credits >= 0

\* C10: the balance a request writes is the balance it read before the model
\* call less its own charge, whatever the store holds at the time of the
\* write: a deduction made in between by another request of the user is lost.
C10_StaleWrite ==
    [][\A r \in DOMAIN reqs :
          (reqs[r].kind \in AiKinds /\ reqs[r].pc = "deduct" /\ reqs'[r].pc = "record")
          => users'[reqs[r].user].credits = reqs[r].credits - reqs[r].creditsUsed]_vars

\* Two requests of u1 have ended, two AiGeneration rows are recorded, and
\* u1 holds more than the initial credits less the two charges.
C10_Witness ==
    /\ \A r \in DOMAIN reqs : reqs[r].pc = "done" /\ reqs[r].status = 200
    /\ \E g, h \in aiGenerations :
         /\ g.id # h.id
         /\ g.userId = "u1" /\ h.userId = "u1"
         /\ aiGenerations = {g, h}
         /\ users["u1"].credits > DefaultCredits - (g.creditsUsed + h.creditsUsed)

(***************************************************************************)
(* C11 - C13: the store methods.                                           *)
(***************************************************************************)
\* C11: after deleteProject(id) has returned, getProject(id) is absent,
\* getProjectFiles(id) returns the empty list whatever files the project
\* had, and the ProjectFile rows of every other project are as they were.
C11_DeleteCascades ==
    lastOp.op = "deleteProject" =>
        /\ lastOp.id \notin DOMAIN projects
        /\ GetProjectFiles(lastOp.id) = {<<>>}
        /\ {row \in FileRows : row.projectId # lastOp.id} = lastOp.others

\* A project that had files has been deleted while another project holds files.
C11_Witness ==
    /\ lastOp.op = "deleteProject"
    /\ lastOp.had # {}
    /\ lastOp.others # {}

\* C12: getUserProjects(userId) returns exactly the projects of the user,
\* ordered by updatedAt descending, and the project of the latest
\* updateProject call is the first element of the result, also when another
\* project was created or updated in the same clock tick.
C12_TouchedProjectFirst ==
    /\ \A u \in Users : \A seq \in GetUserProjects(projects, u) :
          /\ Range(seq) = {id \in DOMAIN projects : projects[id].userId = u}
          /\ \A i, j \in 1..Len(seq) :
                i < j => projects[seq[i]].updatedAt >= projects[seq[j]].updatedAt
    /\ (lastOp.op = "updateProject" /\ lastOp.id \in DOMAIN projects)
          => \A seq \in GetUserProjects(projects, projects[lastOp.id].userId) :
                seq[1] = lastOp.id

\* C13: getProjectFiles(projectId) returns exactly the rows of the project,
\* each once, sorted by path ascending, whatever the order of the insertions,
\* updates and deletions before.
C13_FilesSortedByPath ==
    \A pid \in {P1, P2} : \A res \in GetProjectFiles(pid) :
        /\ Range(res) = RowsOfProject(pid)
        /\ Len(res) = Cardinality(RowsOfProject(pid))
        /\ \A i, j \in 1..Len(res) : i < j => LocaleCompare(res[i].path, res[j].path) < 0

\* A project holds two files of which the one with the greater path was
\* inserted first.
C13_Witness ==
    \E first, second \in RowsOfProject(P1) :
        /\ first.id < second.id
        /\ LocaleCompare(first.path, second.path) > 0

(***************************************************************************)
(* C14 - C17: the bridge between the store and the workspace directory.    *)
(***************************************************************************)
\* C14: syncProjectToWorkspace into an empty workspace followed immediately
\* by syncWorkspaceToProject leaves the project with the same paths and, for
\* every path, the same id, content and language as before, whatever the
\* stored language of a path is.
C14_RoundTrip ==
    (lastOp.op = "syncWorkspaceToProject" /\ lastOp.afterEmpty)
        => /\ ~lastOp.threw
           /\ Untimed(RowsOfProject(lastOp.id)) = lastOp.before

\* C15: after syncProjectToWorkspace the files of the workspace directory
\* (the .git directory aside) are exactly the stored paths and each holds
\* the stored content, also when the directory held files before the call.
C15_WorkspaceMirrorsStore ==
    lastOp.op = "syncProjectToWorkspace" =>
        LET tree == Tracked(gitWorkspace[lastOp.id])
            rows == RowsOfProject(lastOp.id)
        IN  /\ DOMAIN tree = {row.path : row \in rows}
            /\ \A row \in rows : tree[row.path] = ContentOrEmpty(row.content)

\* C16: syncWorkspaceToProject run twice in a row on an unchanged workspace
\* leaves, after the second run, the rows the first run left, with the same
\* ids, paths, contents and languages, and hands out no new id.
C16_ReimportIdempotent ==
    \A pid \in {P1} :
        LET once == SyncWorkspaceToProject(StoreNow, gitWorkspace, pid, now)
            twice == SyncWorkspaceToProject([once EXCEPT !.threw = FALSE],
                                            gitWorkspace, pid, now)
        IN  /\ Untimed(StoreRows(twice)) = Untimed(StoreRows(once))
            /\ twice.nextId = once.nextId
            /\ twice.threw = once.threw

\* syncWorkspaceToProject has run twice in a row, the second run in a later
\* tick, on a workspace whose files it stored.
C16_Witness ==
    /\ lastOp.op = "syncWorkspaceToProject" /\ lastOp.prev = "syncWorkspaceToProject"
    /\ ~lastOp.threw
    /\ lastOp.before = Untimed(RowsOfProject(lastOp.id))
    /\ \E row \in RowsOfProject(lastOp.id) : row.updatedAt > row.createdAt

\* C17: syncWorkspaceToProject passes over a file that cannot be read: the
\* call returns without throwing and every file of the workspace that can be
\* read and is not excluded is in the store with its content.
C17_UnreadableSkipped ==
    (lastOp.op = "syncWorkspaceToProject" /\ lastOp.id \in DOMAIN gitWorkspace)
        => LET tree == gitWorkspace[lastOp.id]
           IN  /\ ~lastOp.threw
               /\ \A path \in DOMAIN tree :
                     (~SkippedBySync(path) /\ tree[path] # Unreadable)
                        => \E row \in RowsOfProject(lastOp.id) :
                              row.path = path /\ row.content = tree[path]

(***************************************************************************)
(* C18, C19: the branch of the git operations; faults that leave a handler.*)
(***************************************************************************)
\* C18: every clone, push and pull works on the branch recorded on the
\* project: a push that succeeds updates branch githubBranch of the
\* repository and no other, a pull checks out githubBranch, and so does a
\* clone.
C18_RecordedBranchUsed ==
    [][\A r \in DOMAIN reqs :
          LET pid == reqs[r].projectId
              tree == WorkspaceOf(pid)
          IN  /\ (/\ reqs[r].kind = "push" /\ reqs[r].pc = "pushToRepository"
                  /\ reqs'[r].pc = "setConnected")
                    => remote' = [remote EXCEPT ![projects[pid].githubBranch] =
                                                     Tracked(tree)]
              /\ (/\ reqs[r].kind = "pull" /\ reqs[r].pc = "pullFromRepository"
                  /\ reqs'[r].pc = "walk")
                    => gitWorkspace'[pid] =
                           Checkout(tree, remote[projects[pid].githubBranch])
              /\ (/\ reqs[r].kind = "clone" /\ reqs[r].pc = "cloneRepository"
                  /\ reqs'[r].pc = "walk")
                    => gitWorkspace'[pid] =
                           Checkout(EmptyMap, remote[projects[pid].githubBranch])]_vars

\* C19: no error raised while a request is handled leaves the handler: every
\* request that has ended has been answered with a response.
C19_EveryRequestAnswered ==
    \A r \in DOMAIN reqs : reqs[r].pc = "done" => reqs[r].status # 0

(***************************************************************************)
(* C20: applying a list of generated files.                                *)
(***************************************************************************)
ListedPaths(files) == {files[i].path : i \in DOMAIN files}
LastEntry(files, path) ==
    files[CHOOSE i \in DOMAIN files :
              /\ files[i].path = path
              /\ \A j \in DOMAIN files : files[j].path = path => j <= i]

\* C20: after a list of files has been applied to a project, every listed
\* path holds the content of the last entry with that path, every row that
\* existed for a listed path has kept its id, every row whose path is not
\* listed is unchanged, and the project has one row for each path of the
\* old paths and the listed paths together.
C20_GeneratedFilesApplied ==
    lastOp.op = "applyGeneratedFiles" =>
        LET files == lastOp.files
            listed == ListedPaths(files)
            before == {row \in lastOp.before : row.projectId = lastOp.id}
            after == RowsOfProject(lastOp.id)
        IN  /\ \A path \in listed :
                  /\ \E row \in after : row.path = path
                  /\ \A row \in after :
                        row.path = path => row.content = LastEntry(files, path).content
            /\ \A old \in before :
                  old.path \in listed =>
                      \E row \in after : row.path = old.path /\ row.id = old.id
            /\ \A old \in lastOp.before :
                  (old.projectId # lastOp.id \/ old.path \notin listed) => old \in FileRows
            /\ Cardinality(after) =
                   Cardinality({row.path : row \in before} \cup listed)

\* src/App.jsx of a project just made from the react template has been
\* patched by a list that names it twice, and three files are there.
C20_Witness ==
    /\ lastOp.op = "applyGeneratedFiles"
    /\ lastOp.n = 1
    /\ ListedPaths(lastOp.files) = {"src/App.jsx"}
    /\ Len(lastOp.files) = 2
    /\ lastOp.files[1].content # lastOp.files[2].content
    /\ Cardinality(lastOp.before) = 4
    /\ Cardinality(RowsOfProject(P1)) = 3
    /\ \E row \in RowsOfProject(P1) :
          row.path = "src/App.jsx" /\ row.content = lastOp.files[2].content

(***************************************************************************)
(* C21: the update methods of the user store.                              *)
(***************************************************************************)
\* C21: updateUserCredits, updateUserStripeInfo and updateUserGitHubInfo
\* called with an id that is not in the store fail and leave every user row
\* and the email index unchanged; called with a present id they succeed and
\* change only the fields they target and updatedAt, of that user only.
C21_UserUpdates ==
    lastOp.op \in UserUpdateMethods =>
        IF lastOp.id \notin DOMAIN lastOp.before
        THEN /\ lastOp.threw
             /\ users = lastOp.before
             /\ usersByEmail = lastOp.beforeIndex
        ELSE /\ ~lastOp.threw
             /\ DOMAIN users = DOMAIN lastOp.before
             /\ \A u \in DOMAIN users :
                   \A f \in DOMAIN users[u] :
                       (u # lastOp.id \/ f \notin lastOp.fields \cup {"updatedAt"})
                           => users[u][f] = lastOp.before[u][f]

(***************************************************************************)
(* C22: the two backends under the same calls.                             *)
(***************************************************************************)
\* C22: after the same sequence of createOrUpdateProjectFile and
\* deleteProjectFile calls, getProjectFiles and getProjectFile of MemStorage
\* and of DatabaseStorage return the same paths, contents and language tags.
C22_BackendsInterchangeable ==
    \A pid \in {P1} :
        /\ \A res \in DbGetProjectFiles(dbFiles, pid) :
              Shown(res) = Shown(MemGetProjectFiles(memFiles, pid))
        /\ \A path \in Paths :
              {<<row.content, row.language>> : row \in DbGetProjectFile(dbFiles, pid, path)}
                  = {<<memFiles[key].content, memFiles[key].language>> :
                        key \in {Key(pid, path)} \cap DOMAIN memFiles}

(***************************************************************************)
(* C23: registration.                                                      *)
(***************************************************************************)
\* C23: no two users have the same email (null aside), whatever
\* registrations have run and however they were interleaved.
C23_EmailsUnique ==
    \A u, v \in DOMAIN users :
        (u # v /\ users[u].email # Null) => users[u].email # users[v].email

C25_PushReadsSharedWorkspace ==
    [][\A r \in DOMAIN reqs :
          (/\ reqs[r].kind = "push" /\ reqs[r].pc = "pushToRepository"
           /\ reqs'[r].pc = "setConnected")
              => LET tree == WorkspaceOf(reqs[r].projectId)
                 IN  /\ DOMAIN remote'["main"] = (DOMAIN tree) \ {GitHead}
                     /\ \A path \in DOMAIN remote'["main"] :
                           remote'["main"][path] = tree[path]]_vars

\* The store went from ("x", "x") over ("x", "y") to ("y", "y") for a.js and
\* b.css.  A push that read ("y", "y") has written a.js and not yet b.css;
\* the stage/commit step of the other push has run meanwhile and published
\* a.js with the newer and b.css with the older content.
C25_Witness ==
    /\ \A path \in Paths : \A row \in RowsOfKey(P1, path) : row.content = "y"
    /\ lastOp.op = "createOrUpdateProjectFile" /\ lastOp.n = 2 /\ lastOp.path = "a.js"
    /\ remote["main"] = [path \in Paths |-> IF path = "a.js" THEN "y" ELSE "x"]
    /\ \E r, q \in DOMAIN reqs :
          /\ reqs[r].kind = "push" /\ reqs[r].pc = "setConnected"
          /\ reqs[q].kind = "push" /\ reqs[q].pc = "writeFile"
          /\ reqs[q].todo = {"b.css"}
          /\ reqs[q].snap = [path \in Paths |-> "y"]

(***************************************************************************)
(* C26: what the directory walks skip.                                     *)
(***************************************************************************)
\* C26: the re-import of a workspace and the scan for the AI context take a
\* file exactly when none of the directories on its path is named .git,
\* node_modules, dist, build or .next.
C26_WalksSkipExactly ==
    lastOp.op = "walk" =>
        LET names == lastOp.path
            inside == \E i \in 1..(Len(names) - 1) :
                          names[i] \in {".git", "node_modules", "dist", "build", ".next"}
        IN  /\ lastOp.imported <=> ~inside
            /\ lastOp.scanned <=> ~inside


\* C27: a step of a request of user U on project P1, where U is not the owner
\* of P1, leaves the record of P1, its ProjectFile rows and its workspace
\* directories as they were.
C27_OnlyOwnerChanges ==
    [][\A r \in DOMAIN reqs :
          (/\ reqs'[r] # reqs[r]
           /\ reqs[r].user \in Users
           /\ reqs[r].projectId = P1
           /\ reqs[r].user # projects[P1].userId)
          => /\ projects' = projects
             /\ memFiles' = memFiles
             /\ dbFiles' = dbFiles
             /\ gitWorkspace' = gitWorkspace
             /\ aiWorkspace' = aiWorkspace]_vars


\* C28: the projectId of every ProjectFile row is the id of an existing
\* project.
C28_NoOrphanFiles == \A row \in FileRows : row.projectId \in DOMAIN projects


\* C29: while a clone, push or pull request has written "syncing" and has
\* not yet written its final status, the gitStatus of its project is
\* "syncing".
C29_SyncingWhileRunning ==
    \A r \in DOMAIN reqs :
        (/\ reqs[r].kind \in SyncKinds
         /\ reqs[r].pc \notin {"idle", "done"}
         /\ reqs[r].writes = <<WroteSyncing>>)
        => projects[reqs[r].projectId].gitStatus = "syncing"


\* C30: in MemStorage every entry of the projectFiles map is stored under
\* the key projectId:path of the row it holds, getProjectFile(p, path)
\* returns a row exactly when getProjectFiles(p) lists a row with that path,
\* no two listed rows of a project share a path, and the id of a row does
\* not change while its key stays in the map.
C30_KeysMatchRows ==
    /\ [](/\ \A key \in DOMAIN memFiles :
                key = Key(memFiles[key].projectId, memFiles[key].path)
          /\ \A p \in {P1, P2}, path \in Paths :
                (MemGetProjectFile(memFiles, p, path) # {})
                   <=> (\E key \in DOMAIN memFiles : /\ memFiles[key].projectId = p
                                                     /\ memFiles[key].path = path)
          /\ \A k1, k2 \in DOMAIN memFiles :
                (/\ memFiles[k1].projectId = memFiles[k2].projectId
                 /\ memFiles[k1].path = memFiles[k2].path) => k1 = k2)
    /\ [][\A key \in (DOMAIN memFiles) \cap (DOMAIN memFiles') :
             memFiles'[key].id = memFiles[key].id]_vars

====
